---- MODULE Spec2Model ----
(***************************************************************************)
(* A model of the derived-metrics engine of the streaming analytics        *)
(* toolkit (src/analysis_modules.py and its helpers).                      *)
(*                                                                         *)
(* Dates are day numbers; day 0 is Friday 2023-11-10, the earliest release *)
(* date of src/config.py.  A panel (the pandas DataFrame `df`) is a        *)
(* sequence of rows: row order is the order of pd.concat over the          *)
(* fragments glob.glob returned, and pandas' idxmax / unique / iloc[0] all *)
(* read that order.  A nullable number (None / NaN / NaT) is a set: {} is  *)
(* the null and {v} the value v.  A value rounded to one decimal is kept   *)
(* in tenths (1.0 is 10).                                                  *)
(***************************************************************************)
EXTENDS Integers, Sequences, FiniteSets

VARIABLES panel, weekDtype, now, result, data_dir, data, fs, wall_clock, run, lines

vars == <<panel, weekDtype, now, result, data_dir, data, fs, wall_clock, run, lines>>

(* ------------------------------ bounds -------------------------------- *)

\* Longest panel of the peak-timing family.
MaxRows == 3

\* Largest current_period value of the peak-timing family.
MaxCount == 1

\* How many half-days the clock may advance.
MaxTicks == 2

\* Fridays per calendar month in the model's calendar (real months hold 4 or 5).
WeeksPerMonth == 4

(* ------------------------- program constants -------------------------- *)

DaysPerWeek == 7

WindowWeeks == 12

RetentionWeeks == 4

None == {}

Some(v) == {v}

TheValue(x) == CHOOSE v \in x : TRUE

(* ------------------------- release registry --------------------------- *)

\* config.songs_to_scrape, release dates as day numbers: 20231110 -> 0,
\* 20240621 -> 224, 20250321 -> 497, 20250425 -> 532.
songs_to_scrape ==
    << [name |-> "Breaking Me Down",    id |-> "1807227249", release_date |-> 532],
       [name |-> "That Thing",          id |-> "1807227251", release_date |-> 497],
       [name |-> "Althea",              id |-> "1748029276", release_date |-> 224],
       [name |-> "What Home Is",        id |-> "1711474234", release_date |-> 0],
       [name |-> "The Way That It Was", id |-> "1711474242", release_date |-> 0],
       [name |-> "Slipping Away",       id |-> "1711474243", release_date |-> 0],
       [name |-> "Crash",               id |-> "1711474239", release_date |-> 0],
       [name |-> "Kid",                 id |-> "1711474235", release_date |-> 0],
       [name |-> "All In",              id |-> "1711474237", release_date |-> 0],
       [name |-> "Easy",                id |-> "1711474241", release_date |-> 0],
       [name |-> "Cycles",              id |-> "1711474233", release_date |-> 0],
       [name |-> "Holding On",          id |-> "1711474240", release_date |-> 0] >>

\* parse_file names a song whose id is not in the registry "Unknown".
UnregisteredId == "1600000000"

get_song_release_date(song_id) ==
    LET hits == { i \in 1..Len(songs_to_scrape) : songs_to_scrape[i].id = song_id }
    IN  IF hits = {} THEN None
        ELSE Some(songs_to_scrape[CHOOSE i \in hits : \A j \in hits : i <= j].release_date)

(* --------------------------- small helpers ---------------------------- *)

SetMax(S) == CHOOSE x \in S : \A y \in S : y <= x

SetMin(S) == CHOOSE x \in S : \A y \in S : x <= y

RECURSIVE SeqSum(_)
SeqSum(s) == IF s = <<>> THEN 0 ELSE Head(s) + SeqSum(Tail(s))

RECURSIVE SetSum(_)
SetSum(S) == IF S = {} THEN 0 ELSE LET x == CHOOSE y \in S : TRUE IN x + SetSum(S \ {x})

Col(t, f) == [i \in 1..Len(t) |-> t[i][f]]

Range(s) == { s[i] : i \in 1..Len(s) }

\* Series.unique(): the distinct values in order of first appearance.
RECURSIVE unique(_)
unique(s) ==
    IF s = <<>> THEN <<>>
    ELSE LET front == unique(SubSeq(s, 1, Len(s) - 1))
             last  == s[Len(s)]
         IN  IF last \in Range(front) THEN front ELSE Append(front, last)

\* n / d rounded to the nearest integer, ties to even (d > 0).
RoundDiv(n, d) ==
    LET q == n \div d
        r == n % d
    IN  IF 2 * r < d THEN q
        ELSE IF 2 * r > d THEN q + 1
        ELSE IF q % 2 = 0 THEN q ELSE q + 1

\* round(days / 7, 1), in tenths.
WeeksTenths(days) == RoundDiv(10 * days, DaysPerWeek)

\* str.lower() of the city names the panel holds.
Lower(s) == IF s = "All Cities" THEN "all cities" ELSE s

Cutoff(release_date) == release_date + WindowWeeks * DaysPerWeek

(* ------------------------------ panels -------------------------------- *)

Row(city, song, song_id, level, measure, period_type, week, cur) ==
    [city |-> city, song |-> song, song_id |-> song_id, level |-> level,
     measure |-> measure, period_type |-> period_type, week |-> week,
     current_period |-> cur]

SongId(name) ==
    LET hits == { i \in 1..Len(songs_to_scrape) : songs_to_scrape[i].name = name }
    IN  IF hits = {} THEN UnregisteredId ELSE songs_to_scrape[CHOOSE i \in hits : TRUE].id

ReleaseOf(name) ==
    LET d == get_song_release_date(SongId(name))
    IN  IF d = None THEN 0 ELSE TheValue(d)

\* Week offsets of the peak-timing family, in days from the release date: the
\* week before release, the release week, the next, and the first week past
\* the 12-week window.
PeakOffsets == { 0 - DaysPerWeek, 0, DaysPerWeek, (WindowWeeks + 1) * DaysPerWeek }

\* Sequences of at most n (week, count) pairs with pairwise distinct weeks.
RECURSIVE WeekSeqs(_)
WeekSeqs(n) ==
    IF n = 0 THEN { <<>> }
    ELSE LET shorter == WeekSeqs(n - 1)
         IN  shorter \cup
             { Append(s, <<w, c>>) :
                 s \in { t \in shorter : Len(t) = n - 1 },
                 w \in PeakOffsets, c \in 0..MaxCount }

DistinctWeeks(s) == \A i, j \in 1..Len(s) : i # j => s[i][1] # s[j][1]

\* One city's (or the aggregate's) weekly plays of one song, rows in any order.
PeakPanels ==
    { [i \in 1..Len(s) |->
          Row(city, song, SongId(song), "song", "plays", "weekly",
              ReleaseOf(song) + s[i][1], s[i][2])] :
        s \in { t \in WeekSeqs(MaxRows) : DistinctWeeks(t) },
        city \in {"All Cities", "Boston"},
        song \in {"What Home Is", "Unknown"} }

\* What one registered song contributes to a catalogue panel: nothing, or one
\* aggregate weekly plays row <<days after release, count>>.
CatalogChoices ==
    { <<>> } \cup
    { <<off, c>> : off \in { 0, DaysPerWeek, 2 * DaysPerWeek }, c \in {0, 1} }

\* The songs of the catalogue panels: the four latest releases of the registry.
CatalogSongs == SubSeq(songs_to_scrape, 1, 4)

RECURSIVE CatalogRows(_, _)
CatalogRows(choice, i) ==
    IF i > Len(CatalogSongs) THEN <<>>
    ELSE LET song == CatalogSongs[i]
             row  == Row("All Cities", song.name, song.id, "song", "plays", "weekly",
                         song.release_date + choice[i][1], choice[i][2])
         IN  (IF choice[i] = <<>> THEN <<>> ELSE <<row>>) \o CatalogRows(choice, i + 1)

\* The aggregate's first weeks of every song of the catalogue.
CatalogPanels ==
    { CatalogRows(choice, 1) : choice \in [1..Len(CatalogSongs) -> CatalogChoices] }

WeeklyPlays(city, song, counts) ==
    [i \in 1..Len(counts) |->
        Row(city, song, SongId(song), "song", "plays", "weekly",
            ReleaseOf(song) + (i - 1) * DaysPerWeek, counts[i])]

\* The weekly counts of the specification's Scenarios 1 and 2, from the release
\* week on.
Scenario1Counts == <<10, 50, 30, 5>>

Scenario2Counts == <<10, 30, 5, 50>>

ScenarioPanels ==
    { WeeklyPlays(city, "What Home Is", counts) :
        city \in {"All Cities", "Boston"}, counts \in {Scenario1Counts, Scenario2Counts} }

\* Scenario 5: the nine songs released on 2023-11-10, the k-th with its first
\* (and only) aggregate activity k weeks after release.
Scenario5Songs == SubSeq(songs_to_scrape, 4, 12)

Scenario5Panel ==
    [k \in 1..Len(Scenario5Songs) |->
        Row("All Cities", Scenario5Songs[k].name, Scenario5Songs[k].id, "song", "plays",
            "weekly", Scenario5Songs[k].release_date + k * DaysPerWeek, 1)]

\* The latest release of the registry: its 12-week window ends in the month
\* the clock starts in.
LatestSong == songs_to_scrape[1]

\* Listener rows of the latest release for the aggregate: one weekly row, or
\* none, for each of the week before release, the last week of the month before
\* the window's end, and the window's last week; one monthly row, or none,
\* for each of the two months; then, or not, a second city with one week and
\* its month.
ListenerRow(city, period_type, week, cur) ==
    Row(city, LatestSong.name, LatestSong.id, "song", "listeners", period_type, week, cur)

ListenerWeeks ==
    << LatestSong.release_date - DaysPerWeek,
       Cutoff(LatestSong.release_date) - DaysPerWeek,
       Cutoff(LatestSong.release_date) >>

ListenerMonths ==
    << Cutoff(LatestSong.release_date) - 4 * DaysPerWeek,
       Cutoff(LatestSong.release_date) >>

RECURSIVE ListenerRows(_, _, _, _)
ListenerRows(period_type, dates, choice, i) ==
    IF i > Len(dates) THEN <<>>
    ELSE (IF choice[i] = None THEN <<>>
          ELSE <<ListenerRow("All Cities", period_type, dates[i], TheValue(choice[i]))>>)
         \o ListenerRows(period_type, dates, choice, i + 1)

SecondCityRows ==
    << ListenerRow("Boston", "weekly", ListenerWeeks[2], 1),
       ListenerRow("Boston", "monthly", ListenerMonths[1], 3) >>

StickinessPanels ==
    { ListenerRows("weekly", ListenerWeeks, wau, 1)
        \o ListenerRows("monthly", ListenerMonths, mau, 1) \o second :
        wau \in [1..Len(ListenerWeeks) -> {None, Some(0), Some(1), Some(2)}],
        mau \in [1..Len(ListenerMonths) -> {None, Some(0), Some(3)}],
        second \in {<<>>, SecondCityRows} }

\* The aggregate's plays of the latest release in its first two weeks, with a
\* listeners row, or none, for each of them.
StreamsPanels ==
    { << Row("All Cities", LatestSong.name, LatestSong.id, "song", "plays", "weekly",
             LatestSong.release_date, plays[1]),
         Row("All Cities", LatestSong.name, LatestSong.id, "song", "plays", "weekly",
             LatestSong.release_date + DaysPerWeek, plays[2]) >>
        \o ListenerRows("weekly",
                        <<LatestSong.release_date, LatestSong.release_date + DaysPerWeek>>,
                        listeners, 1) :
        plays \in [1..2 -> {1, 3}],
        listeners \in [1..2 -> {None, Some(0), Some(2)}] }

\* The aggregate's plays of the first release in its release week and five
\* weeks later, with one weekly plays row, or none, of each of two cities.
RetentionCities == <<"Boston", "Austin">>

RetentionChoices ==
    { None } \cup
    { Some(<<off, c>>) : off \in { 0, DaysPerWeek, 5 * DaysPerWeek }, c \in {0, 1} }

RECURSIVE RetentionRows(_, _)
RetentionRows(choice, i) ==
    IF i > Len(RetentionCities) THEN <<>>
    ELSE (IF choice[i] = None THEN <<>>
          ELSE << Row(RetentionCities[i], "What Home Is", SongId("What Home Is"),
                      "song", "plays", "weekly",
                      ReleaseOf("What Home Is") + TheValue(choice[i])[1],
                      TheValue(choice[i])[2]) >>)
         \o RetentionRows(choice, i + 1)

RetentionPanels ==
    { WeeklyPlays("All Cities", "What Home Is", <<1, 0, 0, 0, 0, 1>>)
        \o RetentionRows(choice, 1) :
        choice \in [1..Len(RetentionCities) -> RetentionChoices] }

(* ------------------------------ results ------------------------------- *)

NoResult == [fn |-> "none", status |-> "none", err |-> "", rows |-> <<>>]

Returned(fn, rows) == [fn |-> fn, status |-> "ok", err |-> "", rows |-> rows]

Raised(fn, err) == [fn |-> fn, status |-> "error", err |-> err, rows |-> <<>>]

(* ---------------------- prepare_weekly_song_data ---------------------- *)

\* pd.to_datetime(col.astype(str), format='%Y%m%d') parses the YYYYMMDD integers
\* of a freshly loaded panel.  Once the column holds datetimes, astype(str)
\* gives 'YYYY-MM-DD', which the format rejects: ValueError, unless the column
\* is empty.
WeekParseRaises(rows, dtype) == dtype = "datetime" /\ rows # <<>>

WeeklyRows(df) == SelectSeq(df, LAMBDA r : r.period_type = "weekly")

\* Lower-casing the column names and the measure values (lines 248, 251) writes
\* to the caller's frame, but the loader already lower-cased the names and the
\* scraper only ever writes 'plays' / 'listeners': the values do not change.
prepare_weekly_song_data(df, dtype) ==
    LET weekly == WeeklyRows(df)
    IN  [raised |-> WeekParseRaises(weekly, dtype),
         streams_data |->
             SelectSeq(weekly, LAMBDA r : r.measure = "plays" /\ r.level = "song"),
         listeners_data |->
             SelectSeq(weekly, LAMBDA r : r.measure = "listeners" /\ r.level = "song")]

(* ------------------------ peak / adoption metrics --------------------- *)

\* rows[rows['week'] <= release_date + pd.Timedelta(weeks=12)]
Window(rows, release_date) ==
    SelectSeq(rows, LAMBDA r : r.week <= Cutoff(release_date))

\* Series.idxmax(): the label of the first row, in row order, holding the maximum.
idxmax(rows) ==
    LET m == SetMax(Range(Col(rows, "current_period")))
    IN  SetMin({ i \in 1..Len(rows) : rows[i].current_period = m })

peak_date(rows) == rows[idxmax(rows)].week

latest_week(rows) == SetMax(Range(Col(rows, "week")))

\* (peak_date == latest_week) and (latest_week <= release_date + 12 weeks)
is_still_growing(peak, latest, release_date) ==
    peak = latest /\ latest <= Cutoff(release_date)

weeks_to_peak_always(peak, release_date, growing) ==
    Some(WeeksTenths(peak - release_date))

\* (peak_date - release_date).days / 7 if not is_still_growing else None, rounded
\* to one decimal when the row is built.
weeks_to_peak(peak, release_date, growing) ==
    IF growing THEN None ELSE Some(WeeksTenths(peak - release_date))

\* rows[rows['current_period'] > 0]['week'].min(): NaT when no row is active.
first_activity(rows) ==
    LET active == { rows[i].week : i \in { j \in 1..Len(rows) : rows[j].current_period > 0 } }
    IN  IF active = {} THEN None ELSE Some(SetMin(active))

\* `if first_activity` is true of a Timestamp and of NaT alike; with NaT the
\* difference is NaT, its .days is NaN, and the rounded value stays NaN.
weeks_to_adopt(first, release_date) ==
    IF first = None THEN None ELSE Some(WeeksTenths(TheValue(first) - release_date))

peaked_first_week_or_null(wtp) == wtp = None \/ TheValue(wtp) = 0

\* weeks_to_peak == 0 if weeks_to_peak is not None else False
peaked_first_week(wtp) == wtp # None /\ TheValue(wtp) = 0

(* -------------------------- tercile bucketing ------------------------- *)

RECURSIVE SortAsc(_)
SortAsc(S) ==
    IF S = <<>> THEN <<>>
    ELSE LET m    == SetMin(Range(S))
             i    == SetMin({ j \in 1..Len(S) : S[j] = m })
             rest == [j \in 1..(Len(S) - 1) |-> IF j < i THEN S[j] ELSE S[j + 1]]
         IN  <<m>> \o SortAsc(rest)

\* The non-null values of a column, ascending (quantile skips NaN).
SortedValues(col) ==
    LET kept == SelectSeq(col, LAMBDA x : x # None)
    IN  SortAsc([i \in 1..Len(kept) |-> TheValue(kept[i])])

\* Series.quantile(q / 100) with linear interpolation, times 100: the position
\* is (n - 1) * q / 100 and the value x[lo] + frac * (x[lo + 1] - x[lo]).
Quantile100(col, q) ==
    LET x    == SortedValues(col)
        pos  == (Len(x) - 1) * q
        lo   == pos \div 100
        frac == pos % 100
    IN  IF frac = 0 THEN 100 * x[lo + 1]
        ELSE 100 * x[lo + 1] + frac * (x[lo + 2] - x[lo + 1])

categorize_strict(v, p33, p67, labels) ==
    IF v = None THEN "Unknown"
    ELSE IF 100 * TheValue(v) < p33 THEN labels[1]
    ELSE IF 100 * TheValue(v) < p67 THEN labels[2]
    ELSE labels[3]

\* categorize_song: Unknown for NaN, else <= against both thresholds.
categorize(v, p33, p67, labels) ==
    IF v = None THEN "Unknown"
    ELSE IF 100 * TheValue(v) <= p33 THEN labels[1]
    ELSE IF 100 * TheValue(v) <= p67 THEN labels[2]
    ELSE labels[3]

AdoptionLabels_swapped == <<"Mid Adopter", "Early Adopter", "Late Bloomer">>

AdoptionLabels == <<"Early Adopter", "Mid Adopter", "Late Bloomer">>

ConsistencyLabels == <<"Low Consistency", "Medium Consistency", "High Consistency">>

VolumeLabels == <<"Low Volume", "Medium Volume", "High Volume">>

\* Lines 617-667: by weeks_to_adopt unless that column is all NaN, else by
\* consistency_score, else (a consistency_score column that is all NaN, which
\* line 608 never builds) by total_streams.
adoption_category(table) ==
    LET wta == Col(table, "weeks_to_adopt")
        cs  == [i \in 1..Len(table) |-> Some(table[i].consistency_score)]
        ts  == [i \in 1..Len(table) |-> Some(table[i].total_streams)]
        by(col, labels) ==
            [i \in 1..Len(table) |->
                categorize(col[i], Quantile100(col, 33), Quantile100(col, 67), labels)]
    IN  IF \E i \in 1..Len(wta) : wta[i] # None THEN by(wta, AdoptionLabels)
        ELSE IF \E i \in 1..Len(cs) : cs[i] # None THEN by(cs, ConsistencyLabels)
        ELSE by(ts, VolumeLabels)

(* -------------------- analyze_song_adoption_overall ------------------- *)

\* The sum of the fractions <<a, b>> of a sequence, as <<numerator, denominator>>.
RECURSIVE SumFrac(_)
SumFrac(pairs) ==
    IF pairs = <<>> THEN <<0, 1>>
    ELSE LET rest == SumFrac(Tail(pairs))
             a    == Head(pairs)[1]
             b    == Head(pairs)[2]
         IN  <<a * rest[2] + rest[1] * b, b * rest[2]>>

Cities(rows) == Range(Col(rows, "city"))

ActiveCities(rows) == Cities(SelectSeq(rows, LAMBDA r : r.current_period > 0))

FirstAt(rows, week) ==
    LET at == SelectSeq(rows, LAMBDA r : r.week = week)
    IN  IF at = <<>> THEN None ELSE Some(at[1].current_period)

\* Lines 555-572: per week of the song's aggregate rows, streams / listeners
\* when the week has listeners; the mean of those, 0 when there are none.
avg_weekly_streams_per_listener(plays, listeners) ==
    LET weeks == unique(Col(plays, "week"))
        week_listeners(w) ==
            IF FirstAt(listeners, w) = None THEN 0 ELSE TheValue(FirstAt(listeners, w))
        kept  == SelectSeq(weeks, LAMBDA w : week_listeners(w) > 0)
        fracs == [i \in 1..Len(kept) |->
                     <<TheValue(FirstAt(plays, kept[i])), week_listeners(kept[i])>>]
        total == SumFrac(fracs)
    IN  IF kept = <<>> THEN 0 ELSE RoundDiv(10 * total[1], total[2] * Len(kept))

\* Lines 577-580: cities with streams in the weeks from latest_week - 4 weeks on,
\* over cities that ever streamed in the window, as a percentage.
song_consistency_score(city_data, latest) ==
    LET last_4_weeks == SelectSeq(city_data,
                            LAMBDA r : r.week >= latest - RetentionWeeks * DaysPerWeek)
        retained == Cardinality(ActiveCities(last_4_weeks))
        active   == Cardinality(ActiveCities(city_data))
    IN  IF active > 0 THEN RoundDiv(1000 * retained, active) ELSE 0

\* The body of the per-song loop, lines 478-609: no row (the empty sequence)
\* where the code `continue`s.
song_adoption_row(df, streams_data, song) ==
    LET aggregate(measure) ==
            SelectSeq(df, LAMBDA r : r.song = song /\ Lower(r.city) = "all cities"
                                     /\ r.measure = measure /\ r.level = "song")
        unfiltered == aggregate("plays")
        release    == get_song_release_date(unfiltered[1].song_id)
        rel        == TheValue(release)
        all_cities_data == Window(unfiltered, rel)
        listeners  == Window(aggregate("listeners"), rel)
        city_data  == Window(SelectSeq(streams_data, LAMBDA r : r.song = song), rel)
        peak       == peak_date(all_cities_data)
        latest     == latest_week(all_cities_data)
        streams    == Col(all_cities_data, "current_period")
        total      == SeqSum(streams)
        active     == Cardinality(ActiveCities(city_data))
        growing    == is_still_growing(peak, latest, rel)
        wtp        == weeks_to_peak(peak, rel, growing)
    IN  IF unfiltered = <<>> THEN <<>>
        ELSE IF release = None THEN <<>>
        ELSE IF all_cities_data = <<>> THEN <<>>
        ELSE << [song |-> song,
                 release_date |-> rel,
                 peak_date |-> peak,
                 peak_streams |-> SetMax(Range(streams)),
                 weeks_to_peak |-> wtp,
                 weeks_to_adopt |-> weeks_to_adopt(first_activity(all_cities_data), rel),
                 is_still_growing |-> growing,
                 peaked_first_week |-> peaked_first_week(wtp),
                 total_streams |-> total,
                 avg_weekly_streams |-> RoundDiv(10 * total, Len(all_cities_data)),
                 peak_weekly_listeners |->
                     IF listeners = <<>> THEN 0
                     ELSE SetMax(Range(Col(listeners, "current_period"))),
                 avg_weekly_listeners |->
                     IF listeners = <<>> THEN 0
                     ELSE RoundDiv(10 * SeqSum(Col(listeners, "current_period")),
                                   Len(listeners)),
                 avg_weekly_streams_per_listener |->
                     avg_weekly_streams_per_listener(all_cities_data, listeners),
                 total_cities |-> Cardinality(Cities(city_data)),
                 active_cities |-> active,
                 avg_streams_per_city |->
                     IF active > 0 THEN RoundDiv(10 * total, active) ELSE 0,
                 peak_to_total_ratio |->
                     IF total > 0 THEN RoundDiv(1000 * SetMax(Range(streams)), total) ELSE 0,
                 consistency_score |-> song_consistency_score(city_data, latest)] >>

RECURSIVE Concat(_)
Concat(ss) == IF ss = <<>> THEN <<>> ELSE Head(ss) \o Concat(Tail(ss))

\* Lines 705-709: (pd.Timestamp.now() - release_date).days / 7, rounded to 1.
weeks_since_release(today, release_date) == WeeksTenths(today - release_date)

\* The returned table.  log_total_streams (line 700), a float that total_streams
\* alone decides, is left out.
analyze_song_adoption_overall(df, dtype, today) ==
    LET fn    == "analyze_song_adoption_overall"
        prep  == prepare_weekly_song_data(df, dtype)
        songs == unique(Col(prep.streams_data, "song"))
        list  == Concat([i \in 1..Len(songs) |->
                            song_adoption_row(df, prep.streams_data, songs[i])])
        cats  == adoption_category(list)
    IN  IF df = <<>> THEN Returned(fn, <<>>)
        ELSE IF prep.raised THEN Raised(fn, "ValueError")
        ELSE IF prep.streams_data = <<>> THEN Returned(fn, <<>>)
        ELSE IF list = <<>> THEN Returned(fn, <<>>)
        ELSE Returned(fn,
                 [i \in 1..Len(list) |->
                     [f \in DOMAIN list[i] \cup {"adoption_category", "weeks_since_release"} |->
                         IF f = "adoption_category" THEN cats[i]
                         ELSE IF f = "weeks_since_release"
                              THEN weeks_since_release(today, list[i].release_date)
                         ELSE list[i][f]]])

(* --------------------- calculate_stickiness_metrics ------------------- *)

\* The clock counts half-days: an even reading is midnight sharp, an odd one is
\* later the same day.
ClockDay(clock) == clock \div 2

AtMidnight(clock) == clock % 2 = 0

DaysPerMonth == WeeksPerMonth * DaysPerWeek

\* week.replace(day=1)
month_start(day) == (day \div DaysPerMonth) * DaysPerMonth

SameMonth(d1, d2) == month_start(d1) = month_start(d2)

\* Lines 844-845 and 878: current_date.replace(day=1) keeps the time of day of
\* pd.Timestamp.now(), so the week's month start (a midnight) is >= it when the
\* month is later than the current one, or is the current one and the clock
\* reads midnight sharp.
month_is_incomplete(week, clock) ==
    \/ month_start(week) > month_start(ClockDay(clock))
    \/ month_start(week) = month_start(ClockDay(clock)) /\ AtMidnight(clock)

\* A sum that does not keep to the city's rows.
ListenersOf_any_city(rows, city) ==
    SeqSum(Col(SelectSeq(rows, LAMBDA r : r.measure = "listeners"), "current_period"))

ListenersOf(rows, city) ==
    SeqSum(Col(SelectSeq(rows, LAMBDA r : r.city = city /\ r.measure = "listeners"),
               "current_period"))

\* Lines 890-909, one (song, week): a row per city of the week's rows.
stickiness_week_rows(song, rel, week, wau_data, mau_data) ==
    LET cities == unique(Col(wau_data, "city"))
    IN  [i \in 1..Len(cities) |->
            LET wau == ListenersOf(wau_data, cities[i])
                mau == ListenersOf(mau_data, cities[i])
            IN  [song |-> song, city |-> cities[i], week |-> week,
                 wau_listeners |-> wau, mau_listeners |-> mau,
                 stickiness_ratio |-> IF mau > 0 THEN RoundDiv(1000 * wau, mau) ELSE 0,
                 release_date |-> rel,
                 weeks_since_release |-> WeeksTenths(week - rel)]]

\* Lines 851-909, one song.
stickiness_song_rows(df, song, clock) ==
    LET song_data    == SelectSeq(df, LAMBDA r : r.song = song)
        release      == get_song_release_date(song_data[1].song_id)
        rel          == TheValue(release)
        weekly_data  == SelectSeq(song_data,
                            LAMBDA r : r.period_type = "weekly"
                                       /\ r.week >= rel /\ r.week <= Cutoff(rel))
        monthly_data == SelectSeq(song_data, LAMBDA r : r.period_type = "monthly")
        weeks        == unique(Col(weekly_data, "week"))
        of_week(w)   ==
            LET wau_data == SelectSeq(weekly_data, LAMBDA r : r.week = w)
                mau_data == SelectSeq(monthly_data, LAMBDA r : SameMonth(r.week, w))
            IN  IF month_is_incomplete(w, clock) THEN <<>>
                ELSE IF wau_data = <<>> \/ mau_data = <<>> THEN <<>>
                ELSE stickiness_week_rows(song, rel, w, wau_data, mau_data)
    IN  IF release = None THEN <<>>
        ELSE IF weekly_data = <<>> \/ monthly_data = <<>> THEN <<>>
        ELSE Concat([i \in 1..Len(weeks) |-> of_week(weeks[i])])

\* The returned table (the heatmap and the summary table are rendering).
calculate_stickiness_metrics(df, dtype, clock) ==
    LET fn        == "calculate_stickiness_metrics"
        song_rows == SelectSeq(df, LAMBDA r : r.level = "song")
        songs     == unique(Col(song_rows, "song"))
    IN  IF df = <<>> THEN Returned(fn, <<>>)
        ELSE IF WeekParseRaises(song_rows, dtype) THEN Raised(fn, "ValueError")
        ELSE Returned(fn,
                 Concat([i \in 1..Len(songs) |->
                            stickiness_song_rows(song_rows, songs[i], clock)]))

(* -------------------- calculate_song_to_artist_ratio ------------------ *)

InWindow(r, rel) == r.week >= rel /\ r.week <= Cutoff(rel)

\* Lines 1167-1189, one (song, week).
ratio_week_rows(song, rel, week, week_song_data, week_artist_data) ==
    LET cities == unique(Col(week_song_data, "city"))
        total(rows, city) ==
            SeqSum(Col(SelectSeq(rows, LAMBDA r : r.city = city), "current_period"))
    IN  [i \in 1..Len(cities) |->
            LET song_listeners   == total(week_song_data, cities[i])
                artist_listeners == total(week_artist_data, cities[i])
            IN  [song |-> song, city |-> cities[i], week |-> week,
                 song_listeners |-> song_listeners,
                 artist_listeners |-> artist_listeners,
                 listener_ratio |->
                     IF artist_listeners > 0
                     THEN RoundDiv(1000 * song_listeners, artist_listeners) ELSE 0,
                 release_date |-> rel,
                 weeks_since_release |-> WeeksTenths(week - rel)]]

\* Lines 1106-1189, one song.
ratio_song_rows(df, song) ==
    LET song_data == SelectSeq(df, LAMBDA r : r.song = song)
        release   == get_song_release_date(song_data[1].song_id)
        rel       == TheValue(release)
        weekly_listeners(rows, level) ==
            SelectSeq(rows, LAMBDA r : r.period_type = "weekly" /\ r.measure = "listeners"
                                       /\ r.level = level /\ InWindow(r, rel))
        weekly_song_data   == weekly_listeners(song_data, "song")
        weekly_artist_data == weekly_listeners(df, "artist")
        weeks == unique(Col(weekly_song_data, "week"))
        of_week(w) ==
            LET week_song_data   == SelectSeq(weekly_song_data, LAMBDA r : r.week = w)
                week_artist_data == SelectSeq(weekly_artist_data, LAMBDA r : r.week = w)
            IN  IF week_song_data = <<>> \/ week_artist_data = <<>> THEN <<>>
                ELSE ratio_week_rows(song, rel, w, week_song_data, week_artist_data)
    IN  IF release = None THEN <<>>
        ELSE IF weekly_song_data = <<>> \/ weekly_artist_data = <<>> THEN <<>>
        ELSE Concat([i \in 1..Len(weeks) |-> of_week(weeks[i])])

\* The returned table.  Line 1090 writes the parsed weeks back into the caller's
\* frame (see CallCalculateSongToArtistRatio).
calculate_song_to_artist_ratio(df, dtype) ==
    LET fn    == "calculate_song_to_artist_ratio"
        songs == unique(Col(SelectSeq(df, LAMBDA r : r.level = "song"), "song"))
    IN  IF df = <<>> THEN Returned(fn, <<>>)
        ELSE IF WeekParseRaises(df, dtype) THEN Raised(fn, "ValueError")
        ELSE Returned(fn, Concat([i \in 1..Len(songs) |-> ratio_song_rows(df, songs[i])]))

\* The dtype of the caller's df['week'] after the call: line 1090 assigns to the
\* frame it was given, unless it returned at line 1055 or raised.
ratio_week_dtype(df, dtype) ==
    IF df = <<>> \/ WeekParseRaises(df, dtype) THEN dtype ELSE "datetime"

(* ------------------------ calculate_city_metrics ---------------------- *)

\* plot_utils.calculate_streams_per_listener(data): its one parameter, and the
\* columns its body divides.
streams_per_listener_params == {"data"}

streams_per_listener_columns == {"streams", "listeners"}

PanelColumns ==
    {"city", "previous_period", "current_period", "%_change", "week", "song", "song_id",
     "measure", "level", "period_type", "grouping"}

\* The call of line 63, calculate_streams_per_listener(city_data, level='song'):
\* Python raises TypeError for a keyword the function does not declare, and the
\* body would raise KeyError for a column the frame does not have.
call_calculate_streams_per_listener(keywords, columns) ==
    IF ~(keywords \subseteq streams_per_listener_params)
    THEN [raised |-> TRUE, err |-> "TypeError"]
    ELSE IF ~(streams_per_listener_columns \subseteq columns)
    THEN [raised |-> TRUE, err |-> "KeyError"]
    ELSE [raised |-> FALSE, err |-> ""]

MinCityStreams == 50

\* What a song the loop `continue`s on leaves in the city's counters.
skipped_song(missing) ==
    [total_songs |-> 1, missing_release_date |-> missing, still_growing |-> 0,
     first_week_peaks |-> 0, time_to_peak |-> <<>>, total_streams |-> 0,
     active_weeks |-> 0, total_weeks |-> 0, rows |-> <<>>]

\* Lines 95-138, a song with windowed rows: what it adds to the city's counters,
\* and its SongMetric row.
windowed_song_metrics(city, song, song_id, rel, windowed, peak, growing, wtp, peak_listeners) ==
    [total_songs |-> 1,
     missing_release_date |-> 0,
     still_growing |-> IF growing THEN 1 ELSE 0,
     first_week_peaks |-> IF peaked_first_week(wtp) THEN 1 ELSE 0,
     \* time_to_peak_list holds the unrounded weeks: kept here in days.
     time_to_peak |-> IF ~growing /\ peak - rel >= 0 THEN <<peak - rel>> ELSE <<>>,
     total_streams |-> SeqSum(Col(windowed, "current_period")),
     active_weeks |->
         Cardinality(Range(Col(SelectSeq(windowed,
             LAMBDA r : r.current_period > 0), "week"))),
     total_weeks |-> Cardinality(Range(Col(windowed, "week"))),
     rows |-> << [city |-> city, song |-> song, song_id |-> song_id,
                  release_date |-> rel, peak_date |-> peak,
                  peak_streams |-> SetMax(Range(Col(windowed, "current_period"))),
                  peak_listeners |-> peak_listeners,
                  weeks_to_peak |-> wtp,
                  weeks_to_adopt |-> weeks_to_adopt(first_activity(windowed), rel),
                  is_still_growing |-> growing,
                  peaked_first_week |-> peaked_first_week(wtp),
                  total_streams |-> SeqSum(Col(windowed, "current_period"))] >>]

\* Lines 95-104: the peak of the windowed rows, then the row.
peaked_song_metrics(city, song, song_id, rel, windowed, peak, latest, peak_listeners) ==
    windowed_song_metrics(city, song, song_id, rel, windowed, peak,
        is_still_growing(peak, latest, rel),
        weeks_to_peak(peak, rel, is_still_growing(peak, latest, rel)),
        peak_listeners)

\* Lines 85-93: no release date, or no row inside the window, skips the song.
released_song_metrics(city, song, song_id, release, song_data, peak_listeners) ==
    IF release = None THEN skipped_song(1)
    ELSE IF Window(song_data, TheValue(release)) = <<>> THEN skipped_song(0)
    ELSE peaked_song_metrics(city, song, song_id, TheValue(release),
             Window(song_data, TheValue(release)),
             peak_date(Window(song_data, TheValue(release))),
             latest_week(Window(song_data, TheValue(release))),
             peak_listeners)

\* Lines 77-146, one song of one city.
city_song_metrics(city, city_streams, city_listeners, song) ==
    LET song_data == SelectSeq(city_streams, LAMBDA r : r.song = song)
        \* str.contains(artist_name, case=False): no name of the registry is
        \* part of another, so a match is the same song name.
        matches   == SelectSeq(city_listeners, LAMBDA r : r.song = song)
    IN  released_song_metrics(city, song, song_data[1].song_id,
            get_song_release_date(song_data[1].song_id), song_data,
            IF matches = <<>> THEN 0 ELSE SetMax(Range(Col(matches, "current_period"))))

\* (active_weeks / total_weeks * 100) if total_weeks > 0 else 0, rounded to 1.
consistency_score(active_weeks, total_weeks) ==
    IF total_weeks > 0 THEN RoundDiv(1000 * active_weeks, total_weeks) ELSE 0

\* The sum of one counter over the songs of a city.
counter(per, f) == SeqSum([i \in 1..Len(per) |-> per[i][f]])

\* Lines 148-170: the CityMetric row from the songs' counters and rows.
city_metric_row(city, city_streams, city_listeners, per, peaks, adopted) ==
    [city |-> city,
     avg_weeks_to_peak |->
         IF peaks = <<>> THEN None
         ELSE Some(RoundDiv(10 * SeqSum(peaks), DaysPerWeek * Len(peaks))),
     peak_streams |-> SetMax(Range(Col(city_streams, "current_period"))),
     peak_weekly_listeners |->
         IF city_listeners = <<>> THEN 0
         ELSE SetMax(Range(Col(city_listeners, "current_period"))),
     songs_analyzed |-> counter(per, "total_songs"),
     songs_peaked_first_week |-> counter(per, "first_week_peaks"),
     pct_peaked_first_week |->
         IF counter(per, "total_songs") > 0
         THEN RoundDiv(1000 * counter(per, "first_week_peaks"),
                       counter(per, "total_songs"))
         ELSE 0,
     songs_missing_release_date |-> counter(per, "missing_release_date"),
     songs_still_growing |-> counter(per, "still_growing"),
     total_streams |-> counter(per, "total_streams"),
     consistency_score |->
         consistency_score(counter(per, "active_weeks"), counter(per, "total_weeks")),
     \* Lines 167-169 keep the values that are not None; a song without
     \* activity carries NaN, which is not None and makes the sum NaN.
     avg_weeks_to_adopt |->
         IF adopted = <<>> \/ None \in Range(adopted) THEN None
         ELSE Some(RoundDiv(SeqSum([i \in 1..Len(adopted) |-> TheValue(adopted[i])]),
                            Len(adopted)))]

\* The songs of a city, each with its counters and row.
city_songs(city_streams, city_listeners, city, songs) ==
    [i \in 1..Len(songs) |->
        city_song_metrics(city, city_streams, city_listeners, songs[i])]

city_tables(city, city_streams, city_listeners, per) ==
    [row |-> city_metric_row(city, city_streams, city_listeners, per,
                 Concat([i \in 1..Len(per) |-> per[i].time_to_peak]),
                 Col(Concat([i \in 1..Len(per) |-> per[i].rows]), "weeks_to_adopt")),
     song_rows |-> Concat([i \in 1..Len(per) |-> per[i].rows])]

\* Lines 57-170, one city past line 63: its CityMetric row and SongMetric rows.
city_metrics_of(city, streams_data, listeners_data) ==
    LET city_streams   == SelectSeq(streams_data, LAMBDA r : r.city = city)
        city_listeners == SelectSeq(listeners_data, LAMBDA r : r.city = city)
    IN  city_tables(city, city_streams, city_listeners,
            city_songs(city_streams, city_listeners, city,
                       unique(Col(city_streams, "song"))))

\* categorize_city, lines 180-186: no NaN test, and every comparison with NaN
\* is false.
categorize_city(v, p33, p67) ==
    IF v = None THEN "Late Bloomer" ELSE categorize(v, p33, p67, AdoptionLabels)

\* Lines 173-193: the two tables, the category column added (the sort of line
\* 191 orders rows, not values).
categorized(per, col) ==
    [raised |-> FALSE, err |-> "",
     city_metrics |->
         [i \in 1..Len(per) |->
             [f \in DOMAIN per[i].row \cup {"category"} |->
                 IF f # "category" THEN per[i].row[f]
                 ELSE IF \A j \in 1..Len(col) : col[j] = None THEN "Late Bloomer"
                 ELSE categorize_city(col[i], Quantile100(col, 33),
                                      Quantile100(col, 67))]],
     song_metrics |-> Concat([i \in 1..Len(per) |-> per[i].song_rows])]

city_loop(cities, streams_data, listeners_data) ==
    [i \in 1..Len(cities) |-> city_metrics_of(cities[i], streams_data, listeners_data)]

\* The loop raises at line 63 on its first city; with no city at all the empty
\* frame of line 173 has no column for line 177, KeyError.
city_metrics_outcome(cities, call, per) ==
    IF cities # <<>> /\ call.raised THEN [raised |-> TRUE, err |-> call.err]
    ELSE IF cities = <<>> THEN [raised |-> TRUE, err |-> "KeyError"]
    ELSE categorized(per, [i \in 1..Len(per) |-> per[i].row.avg_weeks_to_adopt])

calculate_city_metrics(streams_data, listeners_data) ==
    city_metrics_outcome(
        SelectSeq(unique(Col(streams_data, "city")), LAMBDA c : c # "All Cities"),
        call_calculate_streams_per_listener({"level"}, PanelColumns),
        city_loop(SelectSeq(unique(Col(streams_data, "city")), LAMBDA c : c # "All Cities"),
                  streams_data, listeners_data))

(* ------------------------- analyze_peaks_by_city ---------------------- *)

\* Line 316 and the return of line 434: the total_streams >= 50 filter on the
\* city table alone.  category_metrics (a groupby of the filtered city table)
\* is left to the city table it is computed from.
peaks_outcome(fn, prep, got) ==
    IF prep.raised THEN Raised(fn, "ValueError")
    ELSE IF got.raised THEN Raised(fn, got.err)
    ELSE [fn |-> fn, status |-> "ok", err |-> "",
          rows |-> SelectSeq(got.city_metrics,
                             LAMBDA r : r.total_streams >= MinCityStreams),
          song_metrics |-> got.song_metrics]

without_aggregate(rows) == SelectSeq(rows, LAMBDA r : Lower(r.city) # "all cities")

\* Lines 305-313: the weekly song-level rows without the aggregate, then the
\* city metrics.
peaks_of_prepared(fn, prep) ==
    peaks_outcome(fn, prep,
        calculate_city_metrics(without_aggregate(prep.streams_data),
                               without_aggregate(prep.listeners_data)))

analyze_peaks_by_city(df, dtype) ==
    peaks_of_prepared("analyze_peaks_by_city", prepare_weekly_song_data(df, dtype))

(* ------------------------------ config.py ----------------------------- *)

MaxReferenceDays == 21

\* Day 0, the earliest release 2023-11-10, in days from 1970-01-01.
EpochDay == 19671

\* datetime.weekday(): Monday is 0; day 0 is a Friday.
weekday(day) == (day + 4) % 7

\* The year, month and day of the month of a day number, as datetime gives
\* them (proleptic Gregorian calendar).
civil(day) ==
    LET z   == day + EpochDay + 719468
        era == z \div 146097
        doe == z - era * 146097
        yoe == (doe - doe \div 1460 + doe \div 36524 - doe \div 146096) \div 365
        doy == doe - (365 * yoe + yoe \div 4 - yoe \div 100)
        mp  == (5 * doy + 2) \div 153
        m   == IF mp < 10 THEN mp + 3 ELSE mp - 9
    IN  [year  |-> yoe + era * 400 + (IF m <= 2 THEN 1 ELSE 0),
         month |-> m,
         day   |-> doy - (153 * mp + 2) \div 5 + 1]

\* datetime(year, month, 1) as a day number.
first_of_month(year, month) ==
    LET y   == IF month <= 2 THEN year - 1 ELSE year
        era == y \div 400
        yoe == y - era * 400
        mp  == IF month > 2 THEN month - 3 ELSE month + 9
        doy == (153 * mp + 2) \div 5
        doe == yoe * 365 + yoe \div 4 - yoe \div 100 + doy
    IN  era * 146097 + doe - 719468 - EpochDay

\* The first of the month before the month that starts on a day.
previous_month(month_first) ==
    IF civil(month_first).month = 1
    THEN first_of_month(civil(month_first).year - 1, 12)
    ELSE first_of_month(civil(month_first).year, civil(month_first).month - 1)

\* A get_last_full_friday that does not step back the 7 days first.
get_last_friday(reference) ==
    reference - 2 * ((weekday(ClockDay(reference)) + 3) % 7)

\* Lines 165-170, over datetimes in half days: (weekday - 4) % 7 of Python is
\* (weekday + 3) % 7.
get_last_full_friday(reference) ==
    (reference - 2 * DaysPerWeek)
        - 2 * ((weekday(ClockDay(reference - 2 * DaysPerWeek)) + 3) % 7)

\* min(release_date of songs_to_scrape)
earliest_release == SetMin({ songs_to_scrape[i].release_date : i \in 1..Len(songs_to_scrape) })

\* Lines 179-182: the days strftime("%Y%m%d") gives for current, a week back
\* each turn, while current >= earliest_release (a midnight).
raw_weeks(current) ==
    [k \in 1..(IF current < 2 * earliest_release THEN 0
               ELSE (current - 2 * earliest_release) \div (2 * DaysPerWeek) + 1) |->
        ClockDay(current - (k - 1) * 2 * DaysPerWeek)]

\* sorted(dates, reverse=True): at place i the date with fewer than i dates
\* above it and at least i dates not below it.
sorted_reverse(dates) ==
    [i \in 1..Len(dates) |->
        CHOOSE v \in Range(dates) :
            /\ Cardinality({ k \in 1..Len(dates) : dates[k] > v }) < i
            /\ Cardinality({ k \in 1..Len(dates) : dates[k] >= v }) >= i]

\* Lines 173-184.
generate_raw_week_ending(reference) ==
    sorted_reverse(raw_weeks(get_last_full_friday(reference)))

\* Lines 191-194.
get_valid_weeks_for_song(song, raw_week_endings) ==
    SelectSeq(raw_week_endings, LAMBDA w : w >= song.release_date)

\* Lines 215-222.
RECURSIVE month_starts(_, _)
month_starts(current, earliest) ==
    IF current < earliest THEN <<>>
    ELSE <<current>> \o month_starts(previous_month(current), earliest)

\* Lines 196-224.
generate_month_start_dates(reference) ==
    LET latest  == civil(ClockDay(get_last_full_friday(reference)))
        this    == first_of_month(latest.year, latest.month)
        current == IF latest.day <= 7 THEN this ELSE previous_month(this)
        early   == civil(earliest_release)
    IN  sorted_reverse(month_starts(current, first_of_month(early.year, early.month)))

(* ------------------------------- exports ------------------------------ *)

MaxClock == 4

\* Readings of datetime.now() per second of the wall clock.
TicksPerSecond == 2

\* A file system: the directories that exist and, per file name, the instant
\* of the run that wrote the file.
NoFiles == [dirs |-> {}, files |-> {}]

\* datetime.now().strftime('%Y%m%d_%H%M%S'): the reading cut to the second.
timestamp(reading) == reading \div TicksPerSecond

\* os.makedirs(output_dir, exist_ok=True)
makedirs(files, output_dir) == [files EXCEPT !.dirs = @ \cup {output_dir}]

\* df.to_csv(filename): the file of that name now holds what this run wrote.
to_csv(files, filename, written) ==
    [files EXCEPT !.files =
        { f \in @ : f.name # filename } \cup {[name |-> filename, run |-> written]}]

\* f'{output_dir}/{stem}_{timestamp}.csv'
export_filename(output_dir, stem, reading) ==
    [dir |-> output_dir, stem |-> stem, timestamp |-> timestamp(reading)]

\* analysis_modules.py lines 209-224.
export_peak_metrics(files, output_dir, reading) ==
    to_csv(to_csv(makedirs(files, output_dir),
                  export_filename(output_dir, "city_peak_metrics", reading), reading),
           export_filename(output_dir, "song_peak_metrics", reading), reading)

\* analyze_adoption_rates.py lines 143-148: the keys of the results.
adoption_result_keys == <<"city_adoption", "city_summary", "category_metrics">>

RECURSIVE export_each(_, _, _, _)
export_each(files, output_dir, keys, reading) ==
    IF keys = <<>> THEN files
    ELSE export_each(to_csv(files,
                            export_filename(output_dir, "adoption_" \o Head(keys), reading),
                            reading),
                     output_dir, Tail(keys), reading)

\* analyze_adoption_rates.py lines 160-171.
export_adoption_results(files, output_dir, reading) ==
    export_each(makedirs(files, output_dir), output_dir, adoption_result_keys, reading)

(* ------------------ run-export.py and parse-page-data.py --------------- *)

MaxSongs == 1

\* Files written in the parse runs of one behaviour.
MaxWrites == 2

\* file_utils.get_file_key
get_file_key(period_type, measure, group_by, song_id, week) ==
    [period_type |-> period_type, measure |-> measure, group_by |-> group_by,
     song_id |-> song_id, week |-> week]

\* A listing that finds no parsed file.
get_existing_parsed_files_none(files) == {}

\* config.get_existing_parsed_files: the keys of the files "parsed csvs" holds.
get_existing_parsed_files(files) == { f.name : f \in files.files }

\* What becomes of parse_file: the CSV is written; the HTML source is missing
\* and nothing is written; an exception ends the process before the CSV is
\* written.
ParseOutcomes == {"parsed", "missing_html", "crashed"}

\* parse-page-data.py main, lines 106-129, as a process: the files it leaves,
\* its exit code, and what it did.
parse_page_data_main(files, key, force, outcome, written) ==
    IF key \in get_existing_parsed_files(files) /\ ~force
    THEN [files |-> files, returncode |-> 0, did |-> "skipped"]
    ELSE IF outcome = "parsed"
    THEN [files |-> to_csv(makedirs(files, "parsed csvs"), key, written),
          returncode |-> 0, did |-> "parsed"]
    ELSE IF outcome = "missing_html"
    THEN [files |-> files, returncode |-> 0, did |-> "missing_html"]
    ELSE [files |-> files, returncode |-> 1, did |-> "crashed"]

\* run_command, lines 55-82: False when the process cannot be started or exits
\* with a code other than 0.
run_command(started, returncode) == started /\ returncode = 0

\* The songs and the periods of a run: the first songs of the registry, and
\* the latest full week alone.
RunSongs == SubSeq(songs_to_scrape, 1, MaxSongs)

RunPeriods == << ClockDay(get_last_full_friday(2 * (90 * DaysPerWeek))) >>

\* run-export.py lines 155-212: the keys of the parse loop in its order, the
\* artist's periods or every song's valid periods for each measure and level.
parse_keys_of_level(measure, level) ==
    IF level = "artist"
    THEN [k \in 1..Len(RunPeriods) |->
             get_file_key("weekly", measure, "city", "artist", RunPeriods[k])]
    ELSE Concat([i \in 1..Len(RunSongs) |->
             [k \in 1..Len(get_valid_weeks_for_song(RunSongs[i], RunPeriods)) |->
                 get_file_key("weekly", measure, "city", RunSongs[i].id,
                              get_valid_weeks_for_song(RunSongs[i], RunPeriods)[k])]])

parse_keys(measures, levels) ==
    Concat([m \in 1..Len(measures) |->
        Concat([l \in 1..Len(levels) |-> parse_keys_of_level(measures[m], levels[l])])])

\* The loop goes on to the next key whatever run_command returned.
next_key_unless_failed(pos, ok, keys) == IF ok THEN pos + 1 ELSE Len(keys) + 1

next_key(pos, ok, keys) == pos + 1

\* Lines 214-218: sys.exit(1) unless parse_success.
exit_code(parse_success) == IF parse_success THEN 0 ELSE 1

NoStep == [key |-> None, force |-> FALSE, existed |-> FALSE, did |-> "none"]

NoRun ==
    [pc |-> "idle", force |-> FALSE, keys |-> <<>>, pos |-> 1, existing |-> {},
     parse_success |-> TRUE, exit_code |-> None, attempts |-> <<>>, last |-> NoStep]

(* ------------------------ parse-page-data.parse_file -------------------- *)

MaxGroups == 2

\* A line of the page's text is the sequence of its characters.
CityLine == <<"C", "i", "t", "y">>

PreviousPeriodLine == <<"P", "r", "e", "v", "i", "o", "u", "s", " ", "P", "e", "r", "i", "o", "d">>

ThisPeriodLine == <<"T", "h", "i", "s", " ", "P", "e", "r", "i", "o", "d">>

ChangeLine == <<"C", "h", "a", "n", "g", "e">>

HeaderLines == <<CityLine, PreviousPeriodLine, ThisPeriodLine, ChangeLine>>

Decimals == <<"0", "1", "2", "3", "4", "5", "6", "7", "8", "9">>

\* str.isdigit() also holds for digits that are not decimals, such as the
\* superscript two.
OtherDigits == {"^2"}

Whitespace == {" "}

\* str.strip()
RECURSIVE lstrip(_)
lstrip(text) ==
    IF text # <<>> /\ Head(text) \in Whitespace THEN lstrip(Tail(text)) ELSE text

RECURSIVE rstrip(_)
rstrip(text) ==
    IF text # <<>> /\ text[Len(text)] \in Whitespace
    THEN rstrip(SubSeq(text, 1, Len(text) - 1)) ELSE text

strip(text) == rstrip(lstrip(text))

\* str.replace(',', '')
remove_commas(text) == SelectSeq(text, LAMBDA c : c # ",")

\* str.isdigit(): not empty, and every character a digit.
isdigit(text) ==
    text # <<>> /\ \A i \in 1..Len(text) : text[i] \in Range(Decimals) \cup OtherDigits

\* int(text) raises ValueError unless every character is a decimal.
int_raises(text) == \E i \in 1..Len(text) : text[i] \notin Range(Decimals)

decimal_value(c) == (CHOOSE k \in 1..Len(Decimals) : Decimals[k] = c) - 1

RECURSIVE int(_)
int(text) ==
    IF text = <<>> THEN 0
    ELSE 10 * int(SubSeq(text, 1, Len(text) - 1)) + decimal_value(text[Len(text)])

\* Lines 56-61 at index i (from 1): the four comparisons, left to right, each
\* reading its line only when those before it held; a line past the end
\* raises IndexError.
RECURSIVE header_test(_, _, _)
header_test(text, i, k) ==
    IF k > Len(HeaderLines) THEN "match"
    ELSE IF i + k - 1 > Len(text) THEN "IndexError"
    ELSE IF text[i + k - 1] # HeaderLines[k] THEN "no"
    ELSE header_test(text, i, k + 1)

\* Lines 54-63: the first index after a header, None without one.
RECURSIVE find_start(_, _)
find_start(text, i) ==
    IF i > Len(text) THEN [err |-> "", start |-> None]
    ELSE IF header_test(text, i, 1) = "IndexError" THEN [err |-> "IndexError", start |-> None]
    ELSE IF header_test(text, i, 1) = "match" THEN [err |-> "", start |-> Some(i + 4)]
    ELSE find_start(text, i + 1)

\* Lines 68-88 from index i (from 1) on: the rows, and the exception if one
\* is raised.
RECURSIVE read_rows(_, _, _)
read_rows(text, i, rows) ==
    IF i + 3 > Len(text) THEN [err |-> "", rows |-> rows]
    ELSE IF ~isdigit(remove_commas(strip(text[i + 1])))
            \/ ~isdigit(remove_commas(strip(text[i + 2])))
    THEN [err |-> "", rows |-> rows]
    ELSE IF int_raises(remove_commas(strip(text[i + 1])))
            \/ int_raises(remove_commas(strip(text[i + 2])))
    THEN [err |-> "ValueError", rows |-> rows]
    ELSE read_rows(text, i + 4,
             Append(rows, [City |-> strip(text[i]),
                           PreviousPeriod |-> int(remove_commas(strip(text[i + 1]))),
                           CurrentPeriod |-> int(remove_commas(strip(text[i + 2]))),
                           Change |-> strip(text[i + 3])]))

\* The outcome of the header search, then of the rows: the frame written to the
\* CSV and returned, or the exception raised before anything is written.
parsed_rows(found, text) ==
    IF found.err # "" THEN [err |-> found.err, rows |-> <<>>]
    ELSE IF found.start = None THEN [err |-> "", rows |-> <<>>]
    ELSE read_rows(text, TheValue(found.start), <<>>)

parse_outcome(read) ==
    IF read.err # "" THEN Raised("parse_file", read.err)
    ELSE Returned("parse_file", read.rows)

\* Lines 50-94, from the lines of the page's text on.
parse_file(text) == parse_outcome(parsed_rows(find_start(text, 1), text))

\* The texts: a title line or none; the header, whole or cut short; after a
\* whole header at most MaxGroups groups of four lines and a last line or
\* none; after a header cut short the end of the text or one more line.
TitleLine == <<"T", "r", "e", "n", "d", "s">>

GroupsOfLines ==
    { << <<"B", "o", "s", "t", "o", "n">>, <<"1", ",", "2", "3", "4">>, <<" ", "1", "2">>, <<"+", "5", "%">> >>,
      << <<"A", "u", "s", "t", "i", "n">>, <<"-">>, <<"3">>, <<"-">> >>,
      << <<"D", "e", "r", "r", "y">>, <<"0">>, <<"^2">>, <<"0", "%">> >> }

RECURSIVE GroupSeqs(_)
GroupSeqs(n) ==
    IF n = 0 THEN { <<>> }
    ELSE GroupSeqs(n - 1) \cup
         { s \o g : s \in { t \in GroupSeqs(n - 1) : Len(t) = 4 * (n - 1) },
                    g \in GroupsOfLines }

\* str.split("\n") gives one empty line for an empty text.
PageTexts ==
    { << <<>> >> } \cup
    { title \o HeaderLines \o groups \o last :
        title \in { <<>>, <<TitleLine>> }, groups \in GroupSeqs(MaxGroups),
        last \in { <<>>, <<TitleLine>> } }
    \cup
    ({ title \o SubSeq(HeaderLines, 1, n) \o last :
         title \in { <<>>, <<TitleLine>> }, n \in 0..(Len(HeaderLines) - 1),
         last \in { <<>>, <<TitleLine>> } } \ { <<>> })

(* ----------------------------- load_all_csvs --------------------------- *)

MaxFiles == 2

\* What the file of a fragment holds: one byte at most; bytes but no columns
\* (read_csv raises EmptyDataError); a header and no row; bytes read_csv or the
\* Level repair raises any other exception on; a header and a row.
FragmentKinds == {"one_byte", "no_columns", "header_only", "unreadable", "rows"}

\* parsed_{period_type}_{measure}_by_{group_by}_{song_id}_{week}.csv
FragmentNames ==
    [period_type : {"weekly"}, measure : {"plays"}, group_by : {"city"},
     song_id : {songs_to_scrape[1].id, songs_to_scrape[2].id},
     week : {songs_to_scrape[1].release_date,
             songs_to_scrape[1].release_date + DaysPerWeek}]

Fragments == [name : FragmentNames, kind : FragmentKinds]

\* The directory as glob lists it: files of distinct names, in any order.
Directories ==
    { d \in UNION { [1..n -> Fragments] : n \in 0..MaxFiles } :
        \A i, j \in 1..Len(d) : d[i].name = d[j].name => i = j }

\* Lines 20-21, 37-38: the last two fields of the file name.
extract_week_from_filename(fragment) == fragment.name.week

extract_song_id_from_filename(fragment) == fragment.name.song_id

\* Lines 54-55 and 88-89.
extract_group_by_from_filename(fragment) == fragment.name.group_by

extract_period_type_from_filename(fragment) == fragment.name.period_type

\* The rows read_csv gives for a file it reads: one row, without a Level
\* column, or none under the header.
file_rows(fragment) ==
    IF fragment.kind # "rows" THEN <<>> ELSE
    << [City |-> "Boston", Song |-> "Breaking Me Down",
        SongID |-> fragment.name.song_id, Week |-> fragment.name.week,
        Measure |-> fragment.name.measure, CurrentPeriod |-> 1] >>

\* Lines 118-149, the body of the loop for one file: what becomes of it.
read_fragment(fragment) ==
    IF fragment.kind = "one_byte" THEN "continue"
    ELSE IF fragment.kind = "no_columns" THEN "EmptyDataError"
    ELSE IF fragment.kind = "unreadable" THEN "Exception"
    ELSE IF fragment.kind = "header_only" THEN "empty"
    ELSE "appended"

\* Lines 133-141: the frame of a file with the Level, period_type and grouping
\* columns added.
loaded_frame(fragment) ==
    [i \in 1..Len(file_rows(fragment)) |->
        [City |-> file_rows(fragment)[i].City,
         Song |-> file_rows(fragment)[i].Song,
         SongID |-> file_rows(fragment)[i].SongID,
         Week |-> file_rows(fragment)[i].Week,
         Measure |-> file_rows(fragment)[i].Measure,
         CurrentPeriod |-> file_rows(fragment)[i].CurrentPeriod,
         Level |-> IF file_rows(fragment)[i].Song = "Artist Level"
                    THEN "artist" ELSE "song",
         period_type |-> extract_period_type_from_filename(fragment),
         grouping |-> extract_group_by_from_filename(fragment)]]

\* A frame is appended for a header without a row as well.
is_appended_or_empty(fragment) == read_fragment(fragment) \in {"appended", "empty"}

\* Line 143.
is_appended(fragment) == read_fragment(fragment) = "appended"

\* Lines 129 and 146.
is_recorded(fragment) == read_fragment(fragment) \in {"empty", "EmptyDataError"}

\* Lines 112-164.
load_all_csvs(all_files) ==
    LET appended    == SelectSeq(all_files, is_appended)
        recorded    == SelectSeq(all_files, is_recorded)
        dataframes  == [i \in 1..Len(appended) |-> loaded_frame(appended[i])]
        empty_files == [i \in 1..Len(recorded) |->
                           << extract_song_id_from_filename(recorded[i]),
                              extract_week_from_filename(recorded[i]) >>]
    IN  IF dataframes = <<>>
        THEN [fn |-> "load_all_csvs", status |-> "error", err |-> "ValueError",
              rows |-> <<>>, empty_files |-> <<>>]
        ELSE [fn |-> "load_all_csvs", status |-> "ok", err |-> "",
              rows |-> Concat(dataframes), empty_files |-> empty_files]

(* --------------- plot_utils.calculate_streams_per_listener ------------- *)

MaxDataRows == 2

\* A float quotient of two counts: a number, or what pandas gives for a zero
\* divisor, inf for a positive count and NaN for 0 / 0.
Quotient(num, den) ==
    IF den # 0 THEN [kind |-> "number", num |-> num, den |-> den]
    ELSE IF num # 0 THEN [kind |-> "inf", num |-> num, den |-> den]
    ELSE [kind |-> "nan", num |-> num, den |-> den]

\* Frames with the two columns the function reads.
DataFrames ==
    UNION { [1..n -> [streams : 0..MaxCount, listeners : 0..MaxCount]] :
            n \in 0..MaxDataRows }

\* plot_utils lines 185-187: the frame with the column streams / listeners.
calculate_streams_per_listener(frame) ==
    Returned("calculate_streams_per_listener",
        [i \in 1..Len(frame) |->
            [streams |-> frame[i].streams, listeners |-> frame[i].listeners,
             streams_per_listener |-> Quotient(frame[i].streams, frame[i].listeners)]])

(* --------------------------- the state machine ------------------------ *)

\* The first clock reading: midnight of a day after every week the panels hold.
NowStart == 2 * (90 * DaysPerWeek)

Panels ==
    PeakPanels \cup CatalogPanels \cup ScenarioPanels \cup {Scenario5Panel}
        \cup StickinessPanels \cup StreamsPanels \cup RetentionPanels

Init ==
    /\ panel \in Panels
    /\ weekDtype = "int"
    /\ now = NowStart
    /\ result = NoResult
    /\ data_dir = <<>>
    /\ data = <<>>
    /\ fs = NoFiles
    /\ wall_clock = 0
    /\ run = NoRun
    /\ lines = <<>>

CallAnalyzeSongAdoptionOverall ==
    /\ result' = analyze_song_adoption_overall(panel, weekDtype, ClockDay(now))
    /\ UNCHANGED <<panel, weekDtype, now, data_dir, data, fs, wall_clock, run, lines>>

\* The wall clock moves on between two runs.
Tick ==
    /\ now < NowStart + MaxTicks
    /\ now' = now + 1
    /\ UNCHANGED <<panel, weekDtype, result, data_dir, data, fs, wall_clock, run, lines>>

CallCalculateStickinessMetrics ==
    /\ result' = calculate_stickiness_metrics(panel, weekDtype, now)
    /\ UNCHANGED <<panel, weekDtype, now, data_dir, data, fs, wall_clock, run, lines>>

CallCalculateSongToArtistRatio ==
    /\ result' = calculate_song_to_artist_ratio(panel, weekDtype)
    /\ weekDtype' = ratio_week_dtype(panel, weekDtype)
    /\ UNCHANGED <<panel, now, data_dir, data, fs, wall_clock, run, lines>>

CallAnalyzePeaksByCity ==
    /\ result' = analyze_peaks_by_city(panel, weekDtype)
    /\ UNCHANGED <<panel, weekDtype, now, data_dir, data, fs, wall_clock, run, lines>>

Next ==
    \/ CallAnalyzePeaksByCity
    \/ CallAnalyzeSongAdoptionOverall
    \/ CallCalculateStickinessMetrics
    \/ CallCalculateSongToArtistRatio
    \/ Tick

Spec == Init /\ [][Next]_vars

(* ------------------ the loader and the plotting helpers ----------------- *)

UtilityInit ==
    /\ panel = <<>>
    /\ weekDtype = "int"
    /\ now = NowStart
    /\ result = NoResult
    /\ \/ data_dir = <<>> /\ data \in DataFrames /\ lines = <<>>
       \/ data_dir \in Directories /\ data = <<>> /\ lines = <<>>
       \/ data_dir = <<>> /\ data = <<>> /\ lines \in PageTexts
    /\ fs = NoFiles
    /\ wall_clock = 0
    /\ run = NoRun

CallCalculateStreamsPerListener ==
    /\ result' = calculate_streams_per_listener(data)
    /\ UNCHANGED <<panel, weekDtype, now, data_dir, data, fs, wall_clock, run, lines>>

CallLoadAllCsvs ==
    /\ result' = load_all_csvs(data_dir)
    /\ UNCHANGED <<panel, weekDtype, now, data_dir, data, fs, wall_clock, run, lines>>

CallParseFile ==
    /\ lines # <<>>
    /\ result' = parse_file(lines)
    /\ UNCHANGED <<panel, weekDtype, now, data_dir, data, fs, wall_clock, run, lines>>

UtilityNext ==
    \/ CallLoadAllCsvs
    \/ CallParseFile
    \/ CallCalculateStreamsPerListener

UtilitySpec == UtilityInit /\ [][UtilityNext]_vars

(* ----------------------------- export runs ----------------------------- *)

OutputDirs == {"analysis_outputs", "exports"}

ExportInit ==
    /\ panel = <<>>
    /\ weekDtype = "int"
    /\ now = NowStart
    /\ result = NoResult
    /\ data_dir = <<>>
    /\ data = <<>>
    /\ fs \in { [dirs |-> d, files |-> {}] : d \in SUBSET OutputDirs }
    /\ wall_clock = 0
    /\ run = NoRun
    /\ lines = <<>>

\* A run reads the wall clock some time after the run before it.
RunExportPeakMetrics ==
    \E elapsed \in 1..TicksPerSecond, output_dir \in OutputDirs :
        /\ wall_clock + elapsed <= MaxClock
        /\ wall_clock' = wall_clock + elapsed
        /\ fs' = export_peak_metrics(fs, output_dir, wall_clock')
        /\ UNCHANGED <<panel, weekDtype, now, result, data_dir, data, run, lines>>

RunExportAdoptionResults ==
    \E elapsed \in 1..TicksPerSecond, output_dir \in OutputDirs :
        /\ wall_clock + elapsed <= MaxClock
        /\ wall_clock' = wall_clock + elapsed
        /\ fs' = export_adoption_results(fs, output_dir, wall_clock')
        /\ UNCHANGED <<panel, weekDtype, now, result, data_dir, data, run, lines>>

ExportNext ==
    \/ RunExportPeakMetrics
    \/ RunExportAdoptionResults

ExportSpec == ExportInit /\ [][ExportNext]_vars

(* --------------------------- reporting periods -------------------------- *)

\* The reference date, datetime.today() when config.py is imported: the days
\* from 2024-01-01 on and those from 2024-07-01 on.
ReferenceStarts == { 2 * first_of_month(2024, 1), 2 * first_of_month(2024, 7) }

ConfigInit ==
    /\ panel = <<>>
    /\ weekDtype = "int"
    /\ \E start \in ReferenceStarts : now \in start..(start + 2 * MaxReferenceDays)
    /\ result = NoResult
    /\ data_dir = <<>>
    /\ data = <<>>
    /\ fs = NoFiles
    /\ wall_clock = 0
    /\ run = NoRun
    /\ lines = <<>>

CallGetLastFullFriday ==
    /\ result' = Returned("get_last_full_friday", <<ClockDay(get_last_full_friday(now))>>)
    /\ UNCHANGED <<panel, weekDtype, now, data_dir, data, fs, wall_clock, run, lines>>

CallGenerateRawWeekEnding ==
    /\ result' = Returned("generate_raw_week_ending", generate_raw_week_ending(now))
    /\ UNCHANGED <<panel, weekDtype, now, data_dir, data, fs, wall_clock, run, lines>>

CallGetValidWeeksForSong ==
    \E i \in 1..Len(songs_to_scrape) :
        /\ result' = [fn |-> "get_valid_weeks_for_song", status |-> "ok", err |-> "",
                      rows |-> get_valid_weeks_for_song(songs_to_scrape[i],
                                                        generate_raw_week_ending(now)),
                      song |-> songs_to_scrape[i]]
        /\ UNCHANGED <<panel, weekDtype, now, data_dir, data, fs, wall_clock, run, lines>>

CallGenerateMonthStartDates ==
    /\ result' = Returned("generate_month_start_dates", generate_month_start_dates(now))
    /\ UNCHANGED <<panel, weekDtype, now, data_dir, data, fs, wall_clock, run, lines>>

ConfigNext ==
    \/ CallGetLastFullFriday
    \/ CallGenerateRawWeekEnding
    \/ CallGetValidWeeksForSong
    \/ CallGenerateMonthStartDates

ConfigSpec == ConfigInit /\ [][ConfigNext]_vars

(* ------------------------------ parse runs ------------------------------ *)

PipelineInit ==
    /\ panel = <<>>
    /\ weekDtype = "int"
    /\ now = NowStart
    /\ result = NoResult
    /\ data_dir = <<>>
    /\ data = <<>>
    /\ fs = NoFiles
    /\ wall_clock = 0
    /\ run = NoRun
    /\ lines = <<>>

\* run-export.py main up to line 153: the choices, the scraping, and the set
\* of parsed files as it is before the parse loop.
StartRunExport ==
    \E force \in BOOLEAN, levels \in {<<"song">>, <<"song", "artist">>} :
        /\ run.pc \in {"idle", "done"}
        /\ run' = [pc |-> "parsing", force |-> force,
                   keys |-> parse_keys(<<"plays">>, levels), pos |-> 1,
                   existing |-> get_existing_parsed_files(fs),
                   parse_success |-> TRUE, exit_code |-> None, attempts |-> <<>>,
                   last |-> run.last]
        /\ UNCHANGED <<panel, weekDtype, now, result, data_dir, data, fs, wall_clock, lines>>

\* One turn of the parse loop for a key it skips, lines 166-167 and 191-192.
SkipParsedKey ==
    /\ run.pc = "parsing" /\ run.pos <= Len(run.keys)
    /\ run.keys[run.pos] \in run.existing /\ ~run.force
    /\ run' = [run EXCEPT !.pos = @ + 1,
                          !.last = [key |-> Some(run.keys[run.pos]), force |-> FALSE,
                                    existed |-> TRUE, did |-> "skipped"]]
    /\ UNCHANGED <<panel, weekDtype, now, result, data_dir, data, fs, wall_clock, lines>>

\* One turn of the parse loop for a key it runs the parser on.
RunParseCommand ==
    \E started \in BOOLEAN, outcome \in ParseOutcomes, rows \in 0..1 :
        LET key  == run.keys[run.pos]
            step == parse_page_data_main(fs, key, run.force, outcome,
                                         [at |-> wall_clock + 1, rows |-> rows])
            ok   == run_command(started, step.returncode)
        IN  /\ run.pc = "parsing" /\ run.pos <= Len(run.keys)
            /\ ~(key \in run.existing /\ ~run.force)
            /\ (step.did = "parsed") => wall_clock < MaxWrites
            /\ fs' = IF started THEN step.files ELSE fs
            /\ wall_clock' = IF fs' = fs THEN wall_clock ELSE wall_clock + 1
            /\ run' = [run EXCEPT
                   !.pos = next_key(run.pos, ok, run.keys),
                   !.parse_success = @ /\ ok,
                   !.attempts = Append(@, [key |-> key, ok |-> ok]),
                   !.last = IF started
                            THEN [key |-> Some(key), force |-> run.force,
                                  existed |-> key \in get_existing_parsed_files(fs),
                                  did |-> step.did]
                            ELSE @]
            /\ UNCHANGED <<panel, weekDtype, now, result, data_dir, data, lines>>

\* Lines 214-218.
FinishRunExport ==
    /\ run.pc = "parsing" /\ run.pos > Len(run.keys)
    /\ run' = [run EXCEPT !.pc = "done", !.exit_code = Some(exit_code(run.parse_success))]
    /\ UNCHANGED <<panel, weekDtype, now, result, data_dir, data, fs, wall_clock, lines>>

\* python parse-page-data.py run by hand, at any time.
RunParsePageData ==
    \E force \in BOOLEAN, outcome \in ParseOutcomes, rows \in 0..1,
       key \in Range(parse_keys(<<"plays">>, <<"song", "artist">>)) :
        LET step == parse_page_data_main(fs, key, force, outcome,
                                         [at |-> wall_clock + 1, rows |-> rows])
        IN  /\ (step.did = "parsed") => wall_clock < MaxWrites
            /\ fs' = step.files
            /\ wall_clock' = IF fs' = fs THEN wall_clock ELSE wall_clock + 1
            /\ run' = [run EXCEPT !.last =
                          [key |-> Some(key), force |-> force,
                           existed |-> key \in get_existing_parsed_files(fs),
                           did |-> step.did]]
            /\ UNCHANGED <<panel, weekDtype, now, result, data_dir, data, lines>>

PipelineNext ==
    \/ StartRunExport
    \/ SkipParsedKey
    \/ RunParseCommand
    \/ FinishRunExport
    \/ RunParsePageData

PipelineSpec == PipelineInit /\ [][PipelineNext]_vars

(* ------------------------------ properties ---------------------------- *)

AdoptionReturned ==
    result.fn = "analyze_song_adoption_overall" /\ result.status = "ok"

\* The panel's aggregate weekly plays rows of a song up to the end of its
\* 12-week window.
AggregateWindow(song, release_date) ==
    { r \in Range(panel) : /\ r.song = song /\ r.city = "All Cities"
                           /\ r.measure = "plays" /\ r.level = "song"
                           /\ r.week <= Cutoff(release_date) }

\* C1: peak_date is the earliest week among the windowed rows that hold the
\* maximum weekly count, whatever order the panel keeps its rows in.
C1_PeakDateIsEarliestMaxWeek ==
    AdoptionReturned =>
        \A i \in 1..Len(result.rows) :
            LET row  == result.rows[i]
                rows == AggregateWindow(row.song, row.release_date)
                m    == SetMax({ r.current_period : r \in rows })
            IN  row.peak_date = SetMin({ r.week : r \in { x \in rows : x.current_period = m } })

\* C2: is_still_growing is true exactly when peak_date is the latest week of the
\* windowed rows and that week is within 12 weeks of the release date, and
\* weeks_to_peak is null exactly when is_still_growing is true.
C2_StillGrowingIffPeakIsLatest ==
    AdoptionReturned =>
        \A i \in 1..Len(result.rows) :
            LET row    == result.rows[i]
                rows   == AggregateWindow(row.song, row.release_date)
                latest == SetMax({ r.week : r \in rows })
            IN  /\ row.is_still_growing <=>
                       (row.peak_date = latest /\ latest <= Cutoff(row.release_date))
                /\ (row.weeks_to_peak = None) <=> row.is_still_growing

\* A song whose peak is the last of several windowed weeks while the panel
\* holds a later week outside the window: still growing, weeks_to_peak null.
C2_Witness ==
    /\ AdoptionReturned
    /\ \E i \in 1..Len(result.rows) :
           LET row == result.rows[i]
           IN  /\ row.is_still_growing
               /\ row.weeks_to_peak = None
               /\ Cardinality(AggregateWindow(row.song, row.release_date)) >= 2
               /\ \E r \in Range(panel) :
                      r.song = row.song /\ r.week > Cutoff(row.release_date)

\* C4: weeks_to_adopt, when it has a value, is never negative.
C4_WeeksToAdoptNonNegative ==
    AdoptionReturned =>
        \A i \in 1..Len(result.rows) :
            result.rows[i].weeks_to_adopt # None =>
                TheValue(result.rows[i].weeks_to_adopt) >= 0

PeaksCalled == result.fn = "analyze_peaks_by_city"

CityRows == { r \in Range(panel) : r.city # "All Cities" }

\* C3: for a (city, song) pair whose peak lies before its latest windowed week,
\* is_still_growing is false and weeks_to_peak is the days from release to peak
\* over 7, to one decimal; the weekly counts 10, 50, 30, 5 from the release week
\* on give a peak in the second week and weeks_to_peak 1.0.
C3_WeeksToPeakIsDaysOverSeven ==
    (PeaksCalled /\ CityRows # {}) =>
        /\ result.status = "ok"
        /\ \A i \in 1..Len(result.song_metrics) :
               LET row    == result.song_metrics[i]
                   latest == SetMax({ r.week : r \in { x \in CityRows :
                                          /\ x.city = row.city /\ x.song = row.song
                                          /\ x.week <= Cutoff(row.release_date) } })
               IN  row.peak_date < latest =>
                       /\ ~row.is_still_growing
                       /\ row.weeks_to_peak =
                              Some(WeeksTenths(row.peak_date - row.release_date))
        /\ panel = WeeklyPlays("Boston", "What Home Is", Scenario1Counts) =>
               \E i \in 1..Len(result.song_metrics) :
                   LET row == result.song_metrics[i]
                   IN  /\ row.peak_date = row.release_date + DaysPerWeek
                       /\ row.weeks_to_peak = Some(10)
                       /\ ~row.is_still_growing

\* C5: a song without a registered release date stops nothing: the city's
\* songs_missing_release_date counts it, and it has no row in the song table.
C5_MissingReleaseDateCounted ==
    (PeaksCalled /\ \E r \in CityRows : get_song_release_date(r.song_id) = None) =>
        /\ result.status = "ok"
        /\ \A i \in 1..Len(result.rows) :
               LET city    == result.rows[i].city
                   missing == { r.song : r \in { x \in CityRows :
                                    /\ x.city = city
                                    /\ get_song_release_date(x.song_id) = None } }
               IN  result.rows[i].songs_missing_release_date = Cardinality(missing)
        /\ \A i \in 1..Len(result.song_metrics) :
               get_song_release_date(result.song_metrics[i].song_id) # None

\* C6: every city's consistency_score lies in [0, 100] (kept in tenths).
C6_ConsistencyScoreInRange ==
    (PeaksCalled /\ CityRows # {}) =>
        /\ result.status = "ok"
        /\ \A i \in 1..Len(result.rows) :
               /\ result.rows[i].consistency_score >= 0
               /\ result.rows[i].consistency_score <= 1000

\* C7: a function run twice over the same panel returns the same table both
\* times, whatever the clock reads at either run.
C7_SecondRunSameTable ==
    [][(/\ result.status = "ok" /\ result'.status = "ok"
        /\ result'.fn = result.fn /\ panel' = panel)
       => result'.rows = result.rows]_vars

\* C8: after any sequence of calls the panel's week column is as it was loaded,
\* so no call fails on what an earlier call left behind.
C8_PanelLeftAsLoaded ==
    /\ weekDtype = "int"
    /\ ~(result.status = "error" /\ result.err = "ValueError")

\* C9: over a panel without weekly song-level plays rows every analysis
\* function, and over a panel without a non-aggregate city analyze_peaks_by_city,
\* returns an empty table and raises nothing.
C9_EmptyPanelEmptyTable ==
    LET weekly == { r \in Range(panel) : /\ r.period_type = "weekly" /\ r.level = "song"
                                         /\ r.measure = "plays" }
    IN  (\/ result.fn # "none" /\ weekly = {}
         \/ PeaksCalled /\ CityRows = {}) =>
            /\ result.status = "ok"
            /\ result.rows = <<>>

\* The column the adoption categories of the returned table were cut on, and
\* the labels used.
DecidingColumn ==
    LET wta == Col(result.rows, "weeks_to_adopt")
    IN  IF \E i \in 1..Len(wta) : wta[i] # None
        THEN [col |-> wta, labels |-> AdoptionLabels]
        ELSE [col |-> [i \in 1..Len(wta) |-> Some(result.rows[i].consistency_score)],
              labels |-> ConsistencyLabels]

\* C10 as stated: a value equal to the 33rd-percentile threshold gets the lowest
\* label, a value equal to the 67th-percentile threshold the middle one, and a
\* value above the 67th the highest.
C10_BoundaryLabels ==
    AdoptionReturned =>
        \A i \in 1..Len(result.rows) :
            LET d   == DecidingColumn
                p33 == Quantile100(d.col, 33)
                p67 == Quantile100(d.col, 67)
                v   == 100 * TheValue(d.col[i])
                cat == result.rows[i].adoption_category
            IN  d.col[i] # None =>
                    /\ v = p33 => cat = d.labels[1]
                    /\ v = p67 => cat = d.labels[2]
                    /\ v > p67 => cat = d.labels[3]

\* C10 amended: a value equal to the 33rd-percentile threshold gets the lowest
\* label; a value equal to the 67th-percentile threshold gets the middle label
\* when that threshold lies above the 33rd (when the two coincide the value is
\* already at the 33rd and gets the lowest); a value above the 67th gets the
\* highest.
C10_BoundaryLabelsDistinctThresholds ==
    AdoptionReturned =>
        \A i \in 1..Len(result.rows) :
            LET d   == DecidingColumn
                p33 == Quantile100(d.col, 33)
                p67 == Quantile100(d.col, 67)
                v   == 100 * TheValue(d.col[i])
                cat == result.rows[i].adoption_category
            IN  d.col[i] # None =>
                    /\ v = p33 => cat = d.labels[1]
                    /\ (v = p67 /\ p33 < p67) => cat = d.labels[2]
                    /\ v > p67 => cat = d.labels[3]

\* A table cut on weeks_to_adopt with one song exactly at the lower threshold,
\* labelled Early Adopter, and another exactly at the higher one, labelled Mid
\* Adopter.
C10_Witness ==
    /\ AdoptionReturned
    /\ LET d   == DecidingColumn
           p33 == Quantile100(d.col, 33)
           p67 == Quantile100(d.col, 67)
       IN  /\ d.labels = AdoptionLabels
           /\ p33 < p67
           /\ \E i, j \in 1..Len(result.rows) :
                  /\ d.col[i] # None /\ 100 * TheValue(d.col[i]) = p33
                  /\ result.rows[i].adoption_category = "Early Adopter"
                  /\ d.col[j] # None /\ 100 * TheValue(d.col[j]) = p67
                  /\ result.rows[j].adoption_category = "Mid Adopter"

\* The adoption_category of the returned rows whose weeks_to_adopt is v tenths.
CategoriesAt(v) ==
    { result.rows[i].adoption_category :
        i \in { j \in 1..Len(result.rows) : result.rows[j].weeks_to_adopt = Some(v) } }

\* C11 as stated: over the weeks_to_adopt values 1..9 the song at exactly 3 is
\* Early Adopter, the song at exactly 7 is Mid Adopter and the song at 8 is
\* Late Bloomer.
C11_Scenario5Labels ==
    (panel = Scenario5Panel /\ AdoptionReturned) =>
        /\ CategoriesAt(30) = {"Early Adopter"}
        /\ CategoriesAt(70) = {"Mid Adopter"}
        /\ CategoriesAt(80) = {"Late Bloomer"}

\* The adoption table of the nine songs, weeks_to_adopt 1.0 to 9.0.
C11_Witness ==
    /\ panel = Scenario5Panel
    /\ AdoptionReturned
    /\ Len(result.rows) = 9
    /\ \A k \in 1..9 : result.rows[k].weeks_to_adopt = Some(10 * k)

\* C12: an entity whose metric is NaN / None gets the category Unknown, among
\* the songs of the adoption table and among the cities of the city table.
C12_NullValuesAreUnknown ==
    /\ AdoptionReturned =>
           \A i \in 1..Len(result.rows) :
               DecidingColumn.col[i] = None =>
                   result.rows[i].adoption_category = "Unknown"
    /\ (PeaksCalled /\ CityRows # {}) =>
           /\ result.status = "ok"
           /\ \A i \in 1..Len(result.rows) :
                  result.rows[i].avg_weeks_to_adopt = None =>
                      result.rows[i].category = "Unknown"

\* The place of a label among its three: lowest, middle, highest.
Rank(label) ==
    IF label \in {"Early Adopter", "Low Consistency", "Low Volume"} THEN 1
    ELSE IF label \in {"Mid Adopter", "Medium Consistency", "Medium Volume"} THEN 2
    ELSE IF label \in {"Late Bloomer", "High Consistency", "High Volume"} THEN 3
    ELSE 0

\* C13: every song of the adoption table carries exactly one of the three
\* labels of the column the table was cut on, or Unknown when its value is
\* null, and a song with a smaller value never has a higher-ranked label.
C13_CategoriesMonotone ==
    AdoptionReturned =>
        LET col == DecidingColumn.col
            cat(i) == result.rows[i].adoption_category
        IN  /\ \A i \in 1..Len(result.rows) :
                   IF col[i] = None THEN cat(i) = "Unknown" ELSE Rank(cat(i)) \in 1..3
            /\ \A i, j \in 1..Len(result.rows) :
                   (col[i] # None /\ col[j] # None /\ TheValue(col[i]) < TheValue(col[j]))
                       => Rank(cat(i)) <= Rank(cat(j))

\* A table with an Early Adopter, a Mid Adopter and a Late Bloomer in rising
\* order of weeks_to_adopt, and a song without activity labelled Unknown.
C13_Witness ==
    /\ AdoptionReturned
    /\ \E i, j, k, u \in 1..Len(result.rows) :
           LET wta(n) == result.rows[n].weeks_to_adopt
               cat(n) == result.rows[n].adoption_category
           IN  /\ wta(u) = None /\ cat(u) = "Unknown"
               /\ wta(i) # None /\ wta(j) # None /\ wta(k) # None
               /\ TheValue(wta(i)) < TheValue(wta(j))
               /\ TheValue(wta(j)) < TheValue(wta(k))
               /\ cat(i) = "Early Adopter" /\ cat(j) = "Mid Adopter"
               /\ cat(k) = "Late Bloomer"

StickinessReturned ==
    result.fn = "calculate_stickiness_metrics" /\ result.status = "ok"

\* The listeners the panel holds for a song and city in rows of one period type
\* that satisfy a test on the week.
PanelListeners(song, city, period_type, Keep(_)) ==
    SeqSum(Col(SelectSeq(panel, LAMBDA r : /\ r.song = song /\ r.city = city
                                           /\ r.level = "song"
                                           /\ r.measure = "listeners"
                                           /\ r.period_type = period_type
                                           /\ Keep(r.week)),
               "current_period"))

\* C14: in every stickiness row, wau is the song's weekly listeners of that
\* city and week, mau the sum of the song's monthly listeners rows of that city
\* in the week's calendar month, and stickiness_ratio is wau / mau * 100 to one
\* decimal, or 0 when mau is 0.
C14_StickinessRowValues ==
    StickinessReturned =>
        \A i \in 1..Len(result.rows) :
            LET row == result.rows[i]
                wau == PanelListeners(row.song, row.city, "weekly",
                                      LAMBDA w : w = row.week)
                mau == PanelListeners(row.song, row.city, "monthly",
                                      LAMBDA w : SameMonth(w, row.week))
            IN  /\ row.wau_listeners = wau
                /\ row.mau_listeners = mau
                /\ row.stickiness_ratio =
                       IF mau = 0 THEN 0 ELSE RoundDiv(1000 * wau, mau)

\* One table with a row whose month has no monthly listeners (ratio 0) and a
\* row of another city at 1 weekly over 3 monthly listeners (ratio 33.3).
C14_Witness ==
    /\ StickinessReturned
    /\ \E i, j \in 1..Len(result.rows) :
           /\ result.rows[i].mau_listeners = 0
           /\ result.rows[i].wau_listeners > 0
           /\ result.rows[i].stickiness_ratio = 0
           /\ result.rows[j].city # result.rows[i].city
           /\ result.rows[j].wau_listeners = 1
           /\ result.rows[j].mau_listeners = 3
           /\ result.rows[j].stickiness_ratio = 333

\* C15: no stickiness row is for a week of the current calendar month or a
\* later one, and every row's week is within the song's 12-week window.
C15_NoRowOfCurrentMonth ==
    StickinessReturned =>
        \A i \in 1..Len(result.rows) :
            /\ month_start(result.rows[i].week) < month_start(ClockDay(now))
            /\ result.rows[i].week >= result.rows[i].release_date
            /\ result.rows[i].week <= Cutoff(result.rows[i].release_date)

\* C16: no ratio of a returned table is inf or NaN, and a ratio whose
\* denominator is 0 is the number 0; here the streams_per_listener column that
\* calculate_streams_per_listener adds to a frame.
C16_ZeroDenominatorYieldsZero ==
    (result.fn = "calculate_streams_per_listener") =>
        /\ result.status = "ok"
        /\ \A i \in 1..Len(result.rows) :
               /\ result.rows[i].streams_per_listener.kind = "number"
               /\ result.rows[i].listeners = 0 =>
                      result.rows[i].streams_per_listener.num = 0

LoadCalled == result.fn = "load_all_csvs"

FailsToParse(fragment) == fragment.kind \in {"no_columns", "unreadable"}

\* C18: a fragment that fails to parse, whatever the exception, does not stop
\* the load: the other fragments are loaded, and the returned list of skipped
\* fragments holds its (song_id, week).
C18_UnparsedFragmentRecorded ==
    (LoadCalled /\ \E i \in 1..Len(data_dir) : data_dir[i].kind = "rows") =>
        /\ result.status = "ok"
        /\ \A i \in 1..Len(data_dir) :
               FailsToParse(data_dir[i]) =>
                   \E k \in 1..Len(result.empty_files) :
                       result.empty_files[k] =
                           <<data_dir[i].name.song_id, data_dir[i].name.week>>

\* The rows of the usable fragments of a directory, in the directory's order.
RECURSIVE UsableRows(_)
UsableRows(files) ==
    IF files = <<>> THEN <<>>
    ELSE (IF Head(files).kind = "rows"
          THEN <<[song_id |-> Head(files).name.song_id, week |-> Head(files).name.week]>>
          ELSE <<>>) \o UsableRows(Tail(files))

\* C19: a directory without a usable fragment (more than one byte, readable,
\* with a row) makes load_all_csvs raise and return nothing; any other
\* directory gives one row per row of the usable fragments, in order, and
\* nothing of the others.
C19_ErrorIffNoUsableFragment ==
    LoadCalled =>
        IF UsableRows(data_dir) = <<>>
        THEN result.status = "error" /\ result.rows = <<>> /\ result.empty_files = <<>>
        ELSE /\ result.status = "ok"
             /\ [i \in 1..Len(result.rows) |->
                    [song_id |-> result.rows[i].SongID, week |-> result.rows[i].Week]]
                    = UsableRows(data_dir)

\* A load of two files, one usable and one with a header only, and a load of
\* files none of which is usable.
C19_Witness ==
    /\ LoadCalled
    /\ result.status = "ok"
    /\ Len(data_dir) = MaxFiles
    /\ Len(result.rows) = 1
    /\ \E i \in 1..Len(data_dir) : data_dir[i].kind = "header_only"

C19_WitnessError ==
    /\ LoadCalled
    /\ result.status = "error"
    /\ Len(data_dir) = MaxFiles
    /\ \A i \in 1..Len(data_dir) : data_dir[i].kind # "rows"

\* The song-level rows of the aggregate the panel holds for a song, a measure
\* and a week.
SliceTotal(song, measure, week) ==
    SeqSum(Col(SelectSeq(panel, LAMBDA r : /\ r.song = song /\ r.city = "All Cities"
                                           /\ r.level = "song" /\ r.measure = measure
                                           /\ r.week = week),
               "current_period"))

\* The windowed weeks of a song's aggregate plays that have listeners.
WeeksWithListeners(song, release_date) ==
    { w \in { r.week : r \in AggregateWindow(song, release_date) } :
        SliceTotal(song, "listeners", w) > 0 }

RECURSIVE SumOfRatios(_, _)
SumOfRatios(song, weeks) ==
    IF weeks = {} THEN <<0, 1>>
    ELSE LET w    == SetMin(weeks)
             rest == SumOfRatios(song, weeks \ {w})
             num  == SliceTotal(song, "plays", w)
             den  == SliceTotal(song, "listeners", w)
         IN  <<num * rest[2] + rest[1] * den, den * rest[2]>>

\* The mean over the weeks with listeners of plays / listeners, in tenths.
MeanOfSlices(song, release_date) ==
    LET weeks == WeeksWithListeners(song, release_date)
        total == SumOfRatios(song, weeks)
    IN  IF weeks = {} THEN 0
        ELSE RoundDiv(10 * total[1], total[2] * Cardinality(weeks))

OverallStreamsPerListener ==
    AdoptionReturned =>
        \A i \in 1..Len(result.rows) :
            result.rows[i].avg_weekly_streams_per_listener =
                MeanOfSlices(result.rows[i].song, result.rows[i].release_date)

\* C17: avg_weekly_streams_per_listener is the mean, over the slices that have
\* listeners, of the slice's plays over its listeners: a city's value in the
\* table analyze_peaks_by_city gets from calculate_city_metrics, and a song's
\* value in the table of analyze_song_adoption_overall.
C17_StreamsPerListenerMean ==
    /\ (PeaksCalled /\ CityRows # {}) =>
           /\ result.status = "ok"
           /\ { result.rows[i].city : i \in 1..Len(result.rows) }
                  \subseteq { r.city : r \in CityRows }
    /\ OverallStreamsPerListener

\* A song with one week at 3 plays over 2 listeners and one week without
\* listeners: the mean is 1.5.
C17_Witness ==
    /\ AdoptionReturned
    /\ panel \in StreamsPanels
    /\ Len(result.rows) = 1
    /\ result.rows[1].avg_weekly_streams_per_listener = 15
    /\ \E r \in Range(panel) : r.measure = "listeners" /\ r.current_period = 0

\* C20: the 50-stream threshold takes cities out of city_metrics only: every
\* city of the panel with a released song keeps its rows in song_metrics, and
\* city_metrics holds just the cities at 50 streams or more.
C20_ThresholdKeepsSongMetrics ==
    (PeaksCalled /\ CityRows # {}) =>
        /\ result.status = "ok"
        /\ \A i \in 1..Len(result.rows) : result.rows[i].total_streams >= MinCityStreams
        /\ \A r \in CityRows :
               get_song_release_date(r.song_id) # None =>
                   \E k \in 1..Len(result.song_metrics) :
                       result.song_metrics[k].city = r.city

\* C21: no export run replaces a file an earlier run wrote, and after a run
\* its target directory exists.
C21_NoRunOverwrites ==
    [][/\ \A f \in fs.files : f \in fs'.files
       /\ \A f \in fs'.files : f.name.dir \in fs'.dirs]_vars

\* The cities, the aggregate apart, with a weekly song-level plays row of the
\* song above 0 in the window, from a week on.
CitiesActiveFrom(song, release_date, from) ==
    { r.city : r \in { x \in Range(panel) :
                         /\ x.song = song /\ x.city # "All Cities"
                         /\ x.level = "song" /\ x.measure = "plays"
                         /\ x.period_type = "weekly"
                         /\ x.week <= Cutoff(release_date) /\ x.week >= from
                         /\ x.current_period > 0 } }

\* C22: a song's consistency_score is the cities with streams in the last four
\* weeks of the song's window over the cities ever active in the window, as a
\* percentage to one decimal (in tenths); 0 when no city was ever active; and
\* within [0, 100].
C22_SongConsistencyScore ==
    AdoptionReturned =>
        \A i \in 1..Len(result.rows) :
            LET row      == result.rows[i]
                latest   == SetMax({ r.week : r \in AggregateWindow(row.song, row.release_date) })
                earliest == SetMin({ r.week : r \in Range(panel) })
                active   == CitiesActiveFrom(row.song, row.release_date, earliest)
                retained == CitiesActiveFrom(row.song, row.release_date,
                                             latest - RetentionWeeks * DaysPerWeek)
            IN  /\ row.consistency_score >= 0
                /\ row.consistency_score <= 1000
                /\ row.consistency_score =
                       IF active = {} THEN 0
                       ELSE RoundDiv(1000 * Cardinality(retained), Cardinality(active))

\* A Friday whose 7 days up to the next Thursday are over at the reference date.
FullFriday(week) == weekday(week) = 4 /\ 2 * (week + DaysPerWeek) <= now

\* C23: every week get_last_full_friday and generate_raw_week_ending give is a
\* Friday that begins 7 days already over at the reference date, and
\* get_valid_weeks_for_song gives only such Fridays on or after the song's
\* release date.
C23_WeeksAreFullFridays ==
    /\ result.fn \in {"get_last_full_friday", "generate_raw_week_ending"} =>
           \A i \in 1..Len(result.rows) : FullFriday(result.rows[i])
    /\ result.fn = "get_valid_weeks_for_song" =>
           \A i \in 1..Len(result.rows) :
               /\ FullFriday(result.rows[i])
               /\ result.rows[i] >= result.song.release_date

\* The reference date is a Friday past midnight: the latest week is the Friday
\* before it, and a later release gets fewer weeks than there are.
C23_Witness ==
    /\ result.fn = "get_valid_weeks_for_song"
    /\ weekday(ClockDay(now)) = 4 /\ ~AtMidnight(now)
    /\ result.song.name = "Althea"
    /\ Len(result.rows) > 1
    /\ Len(result.rows) < Len(generate_raw_week_ending(now))
    /\ result.rows[1] = ClockDay(now) - DaysPerWeek

\* C25: every date generate_month_start_dates gives is the first day of a
\* calendar month that is over at the current date, and none is before the
\* month of the earliest release.
C25_MonthsAreCompleted ==
    result.fn = "generate_month_start_dates" =>
        \A i \in 1..Len(result.rows) :
            LET month == civil(result.rows[i])
                next  == IF month.month = 12 THEN first_of_month(month.year + 1, 1)
                         ELSE first_of_month(month.year, month.month + 1)
            IN  /\ month.day = 1
                /\ next <= ClockDay(now)
                /\ result.rows[i] >=
                       first_of_month(civil(earliest_release).year,
                                      civil(earliest_release).month)

\* The keys of a run that its parse loop does not skip, in the loop's order.
PendingParses ==
    SelectSeq(run.keys, LAMBDA k : ~(k \in run.existing /\ ~run.force))

ParseFileCalled == result.fn = "parse_file"

\* The first index after the first whole header of the text, 0 without one.
AfterHeader ==
    LET at == { i \in 1..Len(lines) :
                  /\ i + 3 <= Len(lines)
                  /\ SubSeq(lines, i, i + 3) = HeaderLines }
    IN  IF at = {} THEN 0 ELSE SetMin(at) + 4

AllDecimals(text) ==
    LET kept == SelectSeq(text, LAMBDA c : c \notin {",", " "})
    IN  kept # <<>> /\ \A i \in 1..Len(kept) : kept[i] \in Range(Decimals)

\* The k-th group of four lines after the header is whole and its previous
\* and current fields are all digits once the commas are removed.
WellFormedGroup(k) ==
    /\ AfterHeader + 4 * k - 1 <= Len(lines)
    /\ AllDecimals(lines[AfterHeader + 4 * (k - 1) + 1])
    /\ AllDecimals(lines[AfterHeader + 4 * (k - 1) + 2])

\* The number of groups of the maximal well-formed prefix.
WellFormedPrefix ==
    IF AfterHeader = 0 THEN 0
    ELSE SetMax({ n \in 0..Len(lines) : \A k \in 1..n : WellFormedGroup(k) })

\* C26: parse_file writes one row for each group of the maximal prefix of
\* well-formed groups after the header, and no other: it stops at the first
\* malformed group, the counts of a row are integers >= 0, and a text without
\* the header gives a CSV with no row.
C26_RowsAreWellFormedPrefix ==
    ParseFileCalled =>
        /\ result.status = "ok"
        /\ Len(result.rows) = WellFormedPrefix
        /\ \A k \in 1..Len(result.rows) :
               /\ result.rows[k].City = lines[AfterHeader + 4 * (k - 1)]
               /\ result.rows[k].PreviousPeriod >= 0
               /\ result.rows[k].CurrentPeriod >= 0

\* C28: the latest week is taken from the rows already restricted to the 12
\* weeks, so it is never past the cutoff and is_still_growing holds exactly
\* when the windowed peak is on the last windowed week, whatever later weeks
\* the panel holds; a song with one windowed week is still growing, with
\* weeks_to_peak null and peaked_first_week False.
C28_WindowedLatestWeekDecidesGrowing ==
    AdoptionReturned =>
        \A i \in 1..Len(result.rows) :
            LET row   == result.rows[i]
                weeks == { r.week : r \in AggregateWindow(row.song, row.release_date) }
            IN  /\ SetMax(weeks) <= Cutoff(row.release_date)
                /\ row.is_still_growing <=> row.peak_date = SetMax(weeks)
                /\ Cardinality(weeks) = 1 =>
                       /\ row.is_still_growing
                       /\ row.weeks_to_peak = None
                       /\ ~row.peaked_first_week

\* A song with one windowed week, the first week, and a later week of the panel
\* past the window.
C28_Witness ==
    /\ AdoptionReturned
    /\ \E i \in 1..Len(result.rows) :
           LET row   == result.rows[i]
               weeks == { r.week : r \in AggregateWindow(row.song, row.release_date) }
           IN  /\ weeks = { row.release_date }
               /\ row.is_still_growing
               /\ ~row.peaked_first_week
               /\ \E r \in Range(panel) :
                      /\ r.song = row.song /\ r.city = "All Cities"
                      /\ r.week > Cutoff(row.release_date)
                      /\ r.current_period > row.peak_streams

\* avg_weeks_to_adopt of every non-aggregate city of the panel, filtered or not.
AllCitiesWeeksToAdopt ==
    LET streams   == without_aggregate(prepare_weekly_song_data(panel, weekDtype).streams_data)
        listeners == without_aggregate(prepare_weekly_song_data(panel, weekDtype).listeners_data)
        per       == city_loop(unique(Col(streams, "city")), streams, listeners)
    IN  [i \in 1..Len(per) |-> per[i].row.avg_weeks_to_adopt]

\* C29: analyze_peaks_by_city returns, for each city at 50 streams or more, the
\* category that the thresholds over all non-aggregate cities give it: the
\* filter takes rows out and changes no category.
C29_FilterKeepsCategories ==
    (PeaksCalled /\ CityRows # {}) =>
        /\ result.status = "ok"
        /\ \A i \in 1..Len(result.rows) :
               /\ result.rows[i].total_streams >= MinCityStreams
               /\ result.rows[i].category =
                      categorize_city(result.rows[i].avg_weeks_to_adopt,
                                      Quantile100(AllCitiesWeeksToAdopt, 33),
                                      Quantile100(AllCitiesWeeksToAdopt, 67))

\* The weekly song-level plays rows of a city.
CityStreams(city) ==
    { r \in CityRows : /\ r.city = city /\ r.measure = "plays"
                       /\ r.level = "song" /\ r.period_type = "weekly" }

\* C30: in every CityMetric row peak_streams is the maximum over all the stream
\* rows of the city, at least the peak_streams of each SongMetric row of the
\* city, and songs_analyzed is the number of the city's songs, at least the sum
\* of the songs peaked in the first week, still growing and without release
\* date.
C30_CityPeakCoversSongPeaks ==
    (PeaksCalled /\ CityRows # {}) =>
        /\ result.status = "ok"
        /\ \A i \in 1..Len(result.rows) :
               LET row == result.rows[i]
               IN  /\ row.peak_streams =
                          SetMax({ r.current_period : r \in CityStreams(row.city) })
                   /\ \A k \in 1..Len(result.song_metrics) :
                          result.song_metrics[k].city = row.city =>
                              row.peak_streams >= result.song_metrics[k].peak_streams
                   /\ row.songs_analyzed =
                          Cardinality({ r.song : r \in CityStreams(row.city) })
                   /\ row.songs_peaked_first_week + row.songs_still_growing
                          + row.songs_missing_release_date <= row.songs_analyzed

====
